---- MODULE Spec2Model ----
(***************************************************************************)
(* OptionsTracker: the position record store behind /api/positions, the    *)
(* Position Metrics Calculator, the Portfolio Aggregator (/api/metrics),   *)
(* the Wheel Cycle Aggregator (/api/wheel-cycles), the Alert Engine        *)
(* (lib/strategies) and the strategy configuration hook with its           *)
(* dismissal store (hooks/use-strategy-alerts, components/strategy-        *)
(* selector).                                                              *)
(*                                                                         *)
(* Encoding.  Money is an integer number of mills (1/1000 dollar), so that *)
(* Math.round(x * 100) / 100 is a real rounding and not the identity.      *)
(* A nullable JavaScript value is a set: {} is null/undefined, {v} is v.   *)
(* A request body is a function from the supplied keys to their values.    *)
(* Dates that no claim reads (openDate, expiration, stock dates) and the   *)
(* notes are left out of the records; findMany's order by openDate is the  *)
(* order of creation.                                                      *)
(* A percentage is an integer number of basis points (1/100 percent); the  *)
(* strikes, prices and thresholds of the model are chosen so that every    *)
(* division of the Alert Engine is exact.  Binary floating point rounding  *)
(* is not modelled.  Date.now() is counted in hours.                       *)
(*                                                                         *)
(* Six specifications share the variables.  Spec is the server: the        *)
(* browser state stays as it is before the hook is mounted.  EngineSpec    *)
(* applies calculateAllAlerts to drawn inputs.  HookSpec is one mounted    *)
(* useStrategyAlerts with the StrategySelector that edits its              *)
(* configuration; the server state stays empty there.  LoadSpec mounts     *)
(* the hook over the texts localStorage may hold.  PriceSpec is the price  *)
(* service, its clock counted in milliseconds: lookups that interleave at  *)
(* their awaits.  TabsSpec is several holders of the configuration over    *)
(* one localStorage.                                                       *)
(***************************************************************************)
EXTENDS Integers, Sequences, FiniteSets, TLC

\* the server: stored positions, next id, write budget, last response
VARIABLES store, nextId, writes, res
\* the arguments of the Alert Engine and of the hook
VARIABLES argPositions, argStockPrices, argOptionPrices
\* useStrategyAlerts: its state, its memoised results, its pending effects
VARIABLES strategyConfig, allAlerts, activeAlerts, effects
\* StrategySelector's copy of the configuration
VARIABLES localConfig
\* localStorage under STORAGE_KEY, and Date.now()
VARIABLES storage, now
\* events handled so far, and the last one
VARIABLES events, call
\* the price service: the cache of lib/stock-price, the cache of the
\* stock-price route, Date.now(), the oracle calls awaited, the batch
\* lookup awaited, the lookups started, the last step
VARIABLES priceCache, routeCache, clock, inflight, batch, started, last
\* the pages that hold the configuration at the same time, and the one
\* whose save effect wrote localStorage last
VARIABLES holders, writer

apiVars == <<store, nextId, writes, res>>
alertVars == <<argPositions, argStockPrices, argOptionPrices, strategyConfig, allAlerts,
               activeAlerts, effects, localConfig, storage, now, events, call>>
priceVars == <<priceCache, routeCache, clock, inflight, batch, started, last>>
tabVars == <<holders, writer>>
vars == <<store, nextId, writes, res, argPositions, argStockPrices, argOptionPrices,
          strategyConfig, allAlerts, activeAlerts, effects, localConfig,
          storage, now, events, call,
          priceCache, routeCache, clock, inflight, batch, started, last,
          holders, writer>>

(* ---------------------------------------------------------------------- *)
(* Bounds                                                                  *)
(* ---------------------------------------------------------------------- *)
\* positions ever created in one run (ids are never reused)
MaxPositions == 2
\* successful POST/PATCH/DELETE requests in one run
MaxWrites == 2
\* events the mounted hook handles in one run
MaxEvents == 5

(* ---------------------------------------------------------------------- *)
(* JavaScript values                                                       *)
(* ---------------------------------------------------------------------- *)
Null == {}
Some(v) == {v}
Val(x) == CHOOSE v \in x : TRUE

\* truthiness of a nullable number: null, undefined and 0 are falsy
Truthy(x) == x # Null /\ x # Some(0)
\* x || 0
OrZero(x) == IF Truthy(x) THEN Val(x) ELSE 0
\* x || null
OrNull(x) == IF Truthy(x) THEN x ELSE Null
\* obj.k for an optional key: undefined reads as null
Opt(obj, k) == IF k \in DOMAIN obj THEN obj[k] ELSE Null
\* obj.k for a boolean key: undefined is falsy
Flag(obj, k) == k \in DOMAIN obj /\ obj[k]
\* obj.k for a required number
Num(obj, k) == IF k \in DOMAIN obj THEN obj[k] ELSE 0

\* String.prototype.toUpperCase on the tickers of the model
toUpperCase(s) ==
    CASE s = "xyz" -> "XYZ"
      [] s = "abc" -> "ABC"
      [] OTHER -> s

\* new Date(string) for the date strings of the model (days as yyyymmdd)
ParseDate(s) ==
    CASE s = "2025-01-15" -> 20250115
      [] s = "2025-02-21" -> 20250221

\* Math.round(x * 100) / 100 on mills: to the nearest cent, halves upwards
Round2(x) == 10 * ((x + 5) \div 10)

(* ---------------------------------------------------------------------- *)
(* Strategy types and the browser state before the hook is mounted         *)
(* ---------------------------------------------------------------------- *)
\* n percent, in basis points
Pct(n) == 100 * n

STANDARD_STRATEGY ==
    [type |-> "standard", rollThreshold |-> Pct(3), closeThreshold |-> Pct(75)]

DEFAULT_STRATEGY_CONFIG ==
    [activeStrategy |-> "standard",
     customRollThreshold |-> Pct(3),
     customCloseThreshold |-> Pct(75),
     dismissedAlerts |-> <<>>,
     dismissedAt |-> <<>>]

ALERT_REAPPEAR_HOURS == 24

\* a Map without entries
EmptyMap == <<>>

\* the last event handled: its name and the position id it was given
Call(op, id) == [op |-> op, id |-> id]

\* no page has mounted the hook
Unmounted ==
    /\ argPositions = <<>>
    /\ argStockPrices = EmptyMap
    /\ argOptionPrices = Null
    /\ strategyConfig = DEFAULT_STRATEGY_CONFIG
    /\ localConfig = DEFAULT_STRATEGY_CONFIG
    /\ allAlerts = <<>>
    /\ activeAlerts = <<>>
    /\ effects = {}
    /\ storage = Null
    /\ now = 1
    /\ events = 0
    /\ call = Call("none", 0)

\* the last step of the price service: a lookup that returned, an oracle
\* call that was made, a batch that settled
Step(op, fn, ticker, price, status) ==
    [op |-> op, fn |-> fn, ticker |-> ticker, price |-> price, status |-> status,
     tickers |-> <<>>, results |-> <<>>, prices |-> EmptyMap]

\* a server process that has looked up no price, and no further page that
\* holds the configuration
Idle ==
    /\ priceCache = EmptyMap
    /\ routeCache = EmptyMap
    /\ clock = 0
    /\ inflight = {}
    /\ batch = Null
    /\ started = 0
    /\ last = Step("none", "", "", Null, 0)
    /\ holders = <<>>
    /\ writer = 0

(* ---------------------------------------------------------------------- *)
(* Position Metrics Calculator                                             *)
(* ---------------------------------------------------------------------- *)
\* the status rule before stock ownership was tracked: the flag alone
StatusOfFlagAlone(position) ==
    IF Opt(position, "closeDate") # Null THEN "closed"
    ELSE IF Flag(position, "assigned") THEN "assigned"
    ELSE "open"

StatusOf(position) ==
    IF Opt(position, "closeDate") # Null THEN "closed"
    ELSE IF Flag(position, "assigned") /\ Flag(position, "ownsStock") THEN "assigned"
    ELSE "open"

\* premium * contracts * 100 of the calculator's argument
CalcPremiumCollected(position) ==
    Num(position, "premium") * Num(position, "contracts") * 100

\* the premium component with the price paid to close not scaled by contracts
ClosedPremiumPLUnscaled(position) ==
    CalcPremiumCollected(position)
      - OrZero(Opt(position, "premiumPaidToClose")) * 100
      - (OrZero(Opt(position, "openFees")) + OrZero(Opt(position, "closeFees")))

\* the premium component of a closed position
ClosedPremiumPL(position) ==
    LET premiumPaid == OrZero(Opt(position, "premiumPaidToClose"))
                         * Num(position, "contracts") * 100
        fees == OrZero(Opt(position, "openFees")) + OrZero(Opt(position, "closeFees"))
    IN  CalcPremiumCollected(position) - premiumPaid - fees

\* the stock component of a closed position
ClosedStockPL(position) ==
    IF /\ Truthy(Opt(position, "stockSalePrice"))
       /\ Truthy(Opt(position, "stockCostBasis"))
       /\ Truthy(Opt(position, "stockQuantity"))
    THEN (Val(position.stockSalePrice) - Val(position.stockCostBasis))
           * Val(position.stockQuantity)
    ELSE 0

\* the premium component with the fees of the closed branch
AssignedPremiumPLAllFees(position) ==
    CalcPremiumCollected(position)
      - (OrZero(Opt(position, "openFees")) + OrZero(Opt(position, "closeFees")))

\* the premium component of an assigned position
AssignedPremiumPL(position) ==
    LET fees == OrZero(Opt(position, "openFees"))
    IN  CalcPremiumCollected(position) - fees

calculatePositionMetrics(position) ==
    LET status == StatusOf(position)
    IN  IF status = "closed" THEN
            LET premiumRealizedPL == ClosedPremiumPL(position)
                stockRealizedPL == ClosedStockPL(position)
            IN  [status |-> status,
                 realizedPL |-> Some(premiumRealizedPL + stockRealizedPL),
                 premiumRealizedPL |-> Some(premiumRealizedPL),
                 stockRealizedPL |-> Some(stockRealizedPL)]
        ELSE IF status = "assigned" THEN
            LET premiumRealizedPL == AssignedPremiumPL(position)
            IN  [status |-> status,
                 realizedPL |-> Some(premiumRealizedPL),
                 premiumRealizedPL |-> Some(premiumRealizedPL),
                 stockRealizedPL |-> Some(0)]
        ELSE
            [status |-> status,
             realizedPL |-> Null,
             premiumRealizedPL |-> Null,
             stockRealizedPL |-> Null]

(* ---------------------------------------------------------------------- *)
(* Validation boundary: createOptionPositionSchema                         *)
(* ---------------------------------------------------------------------- *)
RequiredKeys == {"stockTicker", "type", "contracts", "strike", "premium"}

\* the range checks of the schema on the keys that are supplied
RangesOk(body) ==
    /\ ("contracts" \in DOMAIN body => body.contracts > 0)
    /\ ("strike" \in DOMAIN body => body.strike > 0)
    /\ ("premium" \in DOMAIN body => body.premium >= 0)
    /\ ("type" \in DOMAIN body => body.type \in {"put", "call"})
    /\ ("stockCostBasis" \in DOMAIN body => Val(body.stockCostBasis) > 0)
    /\ ("openFees" \in DOMAIN body => Val(body.openFees) >= 0)
    /\ ("premiumPaidToClose" \in DOMAIN body => Val(body.premiumPaidToClose) >= 0)
    /\ ("closeFees" \in DOMAIN body => Val(body.closeFees) >= 0)

\* the ticker transform of the schema
Transform(body) ==
    [k \in DOMAIN body |->
        IF k = "stockTicker" THEN toUpperCase(body[k]) ELSE body[k]]

\* createOptionPositionSchema.parse: required keys, ranges, defaults
SchemaAccepts(body) == RequiredKeys \subseteq DOMAIN body /\ RangesOk(body)
SchemaParse(body) ==
    Transform(body) @@ [ownsStock |-> FALSE, assigned |-> FALSE]

\* createOptionPositionSchema.partial().parse: ranges only, no defaults
PartialAccepts(body) == RangesOk(body)
PartialParse(body) == Transform(body)

(* ---------------------------------------------------------------------- *)
(* Requests the clients send                                               *)
(* ---------------------------------------------------------------------- *)
\* the required fields of a new position: ticker, kind, contracts
BaseBodies ==
    { [stockTicker |-> "xyz", type |-> "put", contracts |-> 1,
       strike |-> 100000, premium |-> 2000],
      [stockTicker |-> "ABC", type |-> "call", contracts |-> 2,
       strike |-> 100000, premium |-> 2000] }

\* the optional fields a new position may come with
Extras ==
    { [openFees |-> Some(1005)],
      [ownsStock |-> TRUE, stockCostBasis |-> Some(98000)],
      [ownsStock |-> TRUE, assigned |-> TRUE, stockCostBasis |-> Some(98000),
       openFees |-> Some(1005), closeFees |-> Some(1000),
       premiumPaidToClose |-> Some(500)],
      [assigned |-> TRUE, closeDate |-> ""],
      [ownsStock |-> TRUE, assigned |-> TRUE],
      [closeDate |-> "2025-01-15", premiumPaidToClose |-> Some(500),
       openFees |-> Some(1000), closeFees |-> Some(1000)],
      [closeDate |-> "2025-02-21", ownsStock |-> TRUE, assigned |-> TRUE,
       stockCostBasis |-> Some(98000), stockSalePrice |-> Some(101000),
       stockQuantity |-> Some(50)],
      [closeDate |-> "2025-01-15", stockCostBasis |-> Some(98000),
       stockSalePrice |-> Some(101000)] }

PostBodies ==
    BaseBodies
      \cup { e @@ b : e \in Extras, b \in BaseBodies }
      \cup { [stockTicker |-> "xyz", type |-> "put", contracts |-> 0,
              strike |-> 100000, premium |-> 2000],
             [stockTicker |-> "ABC", type |-> "put", contracts |-> 1,
              strike |-> 100000, premium |-> 2000] }

\* the partial bodies of an update
PatchBodies ==
    { [closeDate |-> ""],
      [closeDate |-> "2025-02-21", premiumPaidToClose |-> Some(500),
       closeFees |-> Some(1000)],
      [closeDate |-> "2025-02-21", stockSalePrice |-> Some(101000)],
      [closeFees |-> Some(2000)],
      [openFees |-> Some(0)],
      [assigned |-> TRUE, ownsStock |-> TRUE, stockCostBasis |-> Some(98000)],
      [assigned |-> TRUE],
      [assigned |-> FALSE],
      [ownsStock |-> TRUE],
      [ownsStock |-> FALSE],
      [stockQuantity |-> Some(50)],
      [stockTicker |-> "abc"],
      [type |-> "call"],
      [contracts |-> 3],
      [premium |-> 0],
      [strike |-> 0] }

\* ids a request may name: every id ever issued and one never issued
RequestIds == 1..nextId

(* ---------------------------------------------------------------------- *)
(* State                                                                   *)
(* ---------------------------------------------------------------------- *)
NoReq == [k \in {} |-> Null]
NoPrices == [t \in {} |-> 0]

Response(op, code, id, req, prev) ==
    [op |-> op, code |-> code, id |-> id, req |-> req, prev |-> prev,
     prices |-> NoPrices, metrics |-> Null, cycles |-> <<>>]

\* no position stored, no request served
EmptyStore ==
    /\ store = [i \in {} |-> Null]
    /\ nextId = 1
    /\ writes = 0
    /\ res = Response("none", 0, 0, NoReq, Null)

Init ==
    /\ EmptyStore
    /\ Unmounted
    /\ Idle

(* ---------------------------------------------------------------------- *)
(* POST /api/positions                                                     *)
(* ---------------------------------------------------------------------- *)
\* the quantity default shared by POST and PATCH
AutoQuantity(data) ==
    IF Flag(data, "ownsStock") /\ ~Truthy(Opt(data, "stockQuantity"))
    THEN Some(Num(data, "contracts") * 100)
    ELSE OrNull(Opt(data, "stockQuantity"))

\* an optional date of a body: a non-empty string becomes a Date, else null
DateOrNull(data, k) ==
    IF k \in DOMAIN data /\ data[k] # "" THEN Some(ParseDate(data[k])) ELSE Null

CreatedPosition(body) ==
    LET validatedData == SchemaParse(body)
        closeDate == DateOrNull(validatedData, "closeDate")
        stockQuantity == AutoQuantity(validatedData)
        metrics == calculatePositionMetrics(
                      [stockQuantity |-> stockQuantity, closeDate |-> closeDate]
                        @@ validatedData)
    IN  [wheelCycleName |-> Some(validatedData.stockTicker),
         stockTicker |-> validatedData.stockTicker,
         type |-> validatedData.type,
         contracts |-> validatedData.contracts,
         strike |-> validatedData.strike,
         premium |-> validatedData.premium,
         ownsStock |-> validatedData.ownsStock,
         stockCostBasis |-> OrNull(Opt(validatedData, "stockCostBasis")),
         stockQuantity |-> stockQuantity,
         stockSalePrice |-> OrNull(Opt(validatedData, "stockSalePrice")),
         assigned |-> validatedData.assigned,
         openFees |-> OrNull(Opt(validatedData, "openFees")),
         closeDate |-> closeDate,
         premiumPaidToClose |-> OrNull(Opt(validatedData, "premiumPaidToClose")),
         closeFees |-> OrNull(Opt(validatedData, "closeFees")),
         status |-> metrics.status,
         realizedPL |-> metrics.realizedPL,
         premiumRealizedPL |-> metrics.premiumRealizedPL,
         stockRealizedPL |-> metrics.stockRealizedPL]

POST(body) ==
    /\ IF ~SchemaAccepts(body) THEN
           /\ res' = Response("POST", 400, 0, NoReq, Null)
           /\ UNCHANGED <<store, nextId, writes>>
       ELSE
           /\ nextId <= MaxPositions
           /\ writes < MaxWrites
           /\ store' = [i \in DOMAIN store \cup {nextId} |->
                           IF i = nextId THEN CreatedPosition(body) ELSE store[i]]
           /\ nextId' = nextId + 1
           /\ writes' = writes + 1
           /\ res' = Response("POST", 201, nextId, body, Null)
    /\ UNCHANGED <<alertVars, priceVars, tabVars>>

(* ---------------------------------------------------------------------- *)
(* PATCH /api/positions/[id]                                               *)
(* ---------------------------------------------------------------------- *)
\* the conversions with an empty close date dropped instead of nulled
UpdateDataDropsEmptyDate(body) ==
    LET validatedData == PartialParse(body)
        kept == {k \in DOMAIN validatedData :
                    ~(k = "closeDate" /\ validatedData[k] = "")}
    IN  [k \in kept |->
            IF k = "closeDate" THEN DateOrNull(validatedData, "closeDate")
            ELSE validatedData[k]]

\* the body after validation and the date conversions
UpdateData(body) ==
    LET validatedData == PartialParse(body)
    IN  [k \in DOMAIN validatedData |->
            IF k = "closeDate" THEN DateOrNull(validatedData, "closeDate")
            ELSE validatedData[k]]

\* an update that leaves the name of the wheel cycle alone
WithCycleNameKept(updateData) == updateData

\* the ticker also names the wheel cycle
WithCycleName(updateData) ==
    IF "stockTicker" \in DOMAIN updateData
    THEN [wheelCycleName |-> Some(updateData.stockTicker)] @@ updateData
    ELSE updateData

\* { ...existingPosition, ...updateData }
MergedData(existingPosition, updateData) == updateData @@ existingPosition

\* the metrics computed from the incoming fields alone
MetricsInputDeltaOnly(existingPosition, updateData) ==
    [stockQuantity |-> AutoQuantity(updateData)] @@ updateData

\* the record the metrics are computed from
MetricsInput(existingPosition, updateData) ==
    LET mergedData == MergedData(existingPosition, updateData)
    IN  [stockQuantity |-> AutoQuantity(mergedData)] @@ mergedData

\* the update that writes the status and the total only
UpdatedPositionTotalOnly(existingPosition, body) ==
    LET updateData == WithCycleName(UpdateData(body))
        metrics == calculatePositionMetrics(MetricsInput(existingPosition, updateData))
    IN  [stockQuantity |-> AutoQuantity(MergedData(existingPosition, updateData)),
         status |-> metrics.status,
         realizedPL |-> metrics.realizedPL]
          @@ updateData @@ existingPosition

UpdatedPosition(existingPosition, body) ==
    LET updateData == WithCycleName(UpdateData(body))
        mergedData == MergedData(existingPosition, updateData)
        stockQuantity == AutoQuantity(mergedData)
        metrics == calculatePositionMetrics(MetricsInput(existingPosition, updateData))
    IN  [stockQuantity |-> stockQuantity,
         status |-> metrics.status,
         realizedPL |-> metrics.realizedPL,
         premiumRealizedPL |-> metrics.premiumRealizedPL,
         stockRealizedPL |-> metrics.stockRealizedPL]
          @@ updateData @@ existingPosition

PATCH(id, body) ==
    /\ IF ~PartialAccepts(body) THEN
           /\ res' = Response("PATCH", 400, id, NoReq, Null)
           /\ UNCHANGED <<store, nextId, writes>>
       ELSE IF id \notin DOMAIN store THEN
           /\ res' = Response("PATCH", 404, id, NoReq, Null)
           /\ UNCHANGED <<store, nextId, writes>>
       ELSE
           /\ writes < MaxWrites
           /\ store' = [store EXCEPT ![id] = UpdatedPosition(store[id], body)]
           /\ writes' = writes + 1
           /\ res' = Response("PATCH", 200, id, body, Some(store[id]))
           /\ UNCHANGED nextId
    /\ UNCHANGED <<alertVars, priceVars, tabVars>>

(* ---------------------------------------------------------------------- *)
(* DELETE and GET /api/positions/[id]                                      *)
(* ---------------------------------------------------------------------- *)
\* prisma's delete throws on a missing record; the handler answers 500
DELETE(id) ==
    /\ IF id \notin DOMAIN store THEN
           /\ res' = Response("DELETE", 500, id, NoReq, Null)
           /\ UNCHANGED <<store, nextId, writes>>
       ELSE
           /\ writes < MaxWrites
           /\ store' = [i \in DOMAIN store \ {id} |-> store[i]]
           /\ writes' = writes + 1
           /\ res' = Response("DELETE", 200, id, NoReq, Some(store[id]))
           /\ UNCHANGED nextId
    /\ UNCHANGED <<alertVars, priceVars, tabVars>>

GET(id) ==
    /\ res' = IF id \in DOMAIN store
              THEN Response("GET", 200, id, NoReq, Null)
              ELSE Response("GET", 404, id, NoReq, Null)
    /\ UNCHANGED <<store, nextId, writes>>
    /\ UNCHANGED <<alertVars, priceVars, tabVars>>

(* ---------------------------------------------------------------------- *)
(* Folds over the position set                                             *)
(* ---------------------------------------------------------------------- *)
RECURSIVE Sum(_, _)
\* the sum of f over the set S
Sum(f, S) ==
    IF S = {} THEN 0
    ELSE LET x == CHOOSE y \in S : TRUE IN f[x] + Sum(f, S \ {x})

RECURSIVE Ascending(_)
\* findMany ordered by openDate: the ids in the order of creation
Ascending(S) ==
    IF S = {} THEN <<>>
    ELSE LET m == CHOOSE y \in S : \A z \in S : y <= z
         IN  <<m>> \o Ascending(S \ {m})

PremiumCollected(position) == position.premium * position.contracts * 100

(* ---------------------------------------------------------------------- *)
(* GET /api/wheel-cycles                                                   *)
(* ---------------------------------------------------------------------- *)
CycleName(position) ==
    IF position.wheelCycleName # Null /\ position.wheelCycleName # Some("")
    THEN Val(position.wheelCycleName) ELSE "Uncategorized"

\* what one position adds to the unrealized P/L of its cycle
CycleUnrealized(position) ==
    IF position.status \in {"open", "assigned"}
    THEN PremiumCollected(position) - OrZero(position.openFees)
    ELSE 0

\* what one position adds to the realized P/L of its cycle
CycleRealized(position) ==
    IF position.status = "closed" THEN OrZero(position.realizedPL) ELSE 0

\* what one position adds to the premium collected by its cycle
CyclePremium(position) ==
    IF position.status \in {"open", "assigned"} THEN PremiumCollected(position)
    ELSE IF position.status = "closed"
    THEN PremiumCollected(position)
           - OrZero(position.premiumPaidToClose) * position.contracts * 100
    ELSE 0

\* a cycle completed as soon as one of its positions is closed
CycleStatusAnyClosed(openPositions, closedPositions) ==
    IF closedPositions > 0 THEN "completed" ELSE "active"

\* active unless every position of the cycle is closed
CycleStatus(openPositions, closedPositions) ==
    IF openPositions = 0 /\ closedPositions > 0 THEN "completed" ELSE "active"

\* the summary of the positions grouped under one cycle name
CycleSummary(positions, cycleName) ==
    LET ids == {i \in DOMAIN positions : CycleName(positions[i]) = cycleName}
        openPositions ==
            Cardinality({i \in ids : positions[i].status \in {"open", "assigned"}})
        closedPositions ==
            Cardinality({i \in ids : positions[i].status = "closed"})
        realizedPL == Sum([i \in ids |-> CycleRealized(positions[i])], ids)
        unrealizedPL == Sum([i \in ids |-> CycleUnrealized(positions[i])], ids)
        premium == Sum([i \in ids |-> CyclePremium(positions[i])], ids)
    IN  [name |-> cycleName,
         totalPositions |-> Cardinality(ids),
         openPositions |-> openPositions,
         closedPositions |-> closedPositions,
         totalPL |-> Round2(realizedPL + unrealizedPL),
         realizedPL |-> Round2(realizedPL),
         unrealizedPL |-> Round2(unrealizedPL),
         totalPremiumCollected |-> Round2(premium),
         status |-> CycleStatus(openPositions, closedPositions)]

RECURSIVE CycleNames(_, _)
\* the keys of wheelCyclesMap in the order of their insertion
CycleNames(positions, ids) ==
    IF ids = <<>> THEN <<>>
    ELSE LET rest == CycleNames(positions, SubSeq(ids, 1, Len(ids) - 1))
             name == CycleName(positions[ids[Len(ids)]])
         IN  IF \E k \in DOMAIN rest : rest[k] = name THEN rest
             ELSE Append(rest, name)

\* a comparator that looks at the total P/L alone
CompareCyclesByPL(a, b) == b.totalPL - a.totalPL

\* the comparator of the final sort: negative when a goes first
CompareCycles(a, b) ==
    IF a.status = "active" /\ b.status = "completed" THEN -1
    ELSE IF a.status = "completed" /\ b.status = "active" THEN 1
    ELSE b.totalPL - a.totalPL

RECURSIVE SortCycles(_)
\* Array.prototype.sort with CompareCycles: a stable sort
SortCycles(cycles) ==
    IF cycles = <<>> THEN <<>>
    ELSE LET sorted == SortCycles(SubSeq(cycles, 1, Len(cycles) - 1))
             c == cycles[Len(cycles)]
             \* c goes after every element that does not compare after it
             n == Cardinality({k \in DOMAIN sorted :
                                 \A j \in 1..k : CompareCycles(sorted[j], c) <= 0})
         IN  SubSeq(sorted, 1, n) \o <<c>> \o SubSeq(sorted, n + 1, Len(sorted))

WheelCycles(positions) ==
    LET names == CycleNames(positions, Ascending(DOMAIN positions))
    IN  SortCycles([k \in DOMAIN names |-> CycleSummary(positions, names[k])])

GetWheelCycles ==
    /\ res' = [Response("cycles", 200, 0, NoReq, Null)
                 EXCEPT !.cycles = WheelCycles(store)]
    /\ UNCHANGED <<store, nextId, writes>>
    /\ UNCHANGED <<alertVars, priceVars, tabVars>>

(* ---------------------------------------------------------------------- *)
(* GET /api/metrics                                                        *)
(* ---------------------------------------------------------------------- *)
\* the price the oracle quotes for a ticker when it answers
Quote(ticker) ==
    CASE ticker = "XYZ" -> 101000
      [] ticker = "ABC" -> 95000

\* the tickers whose price the handler asks for
StockTickers(positions) ==
    {positions[i].stockTicker : i \in {j \in DOMAIN positions : positions[j].ownsStock}}

\* the maps getMultipleStockPrices may return: any part of the tickers priced
PriceMaps(tickers) ==
    {[t \in {toUpperCase(u) : u \in avail} |-> Quote(t)] : avail \in SUBSET tickers}

\* the stock gain counted for every position that owns stock, whatever its status
StockUnrealizedAnyStatus(position, currentStockPrices) ==
    IF /\ position.ownsStock
       /\ Truthy(position.stockCostBasis)
       /\ Truthy(position.stockQuantity)
       /\ toUpperCase(position.stockTicker) \in DOMAIN currentStockPrices
       /\ currentStockPrices[toUpperCase(position.stockTicker)] # 0
    THEN (currentStockPrices[toUpperCase(position.stockTicker)]
            - Val(position.stockCostBasis)) * Val(position.stockQuantity)
    ELSE 0

\* what one position adds to stockUnrealizedPL
StockUnrealized(position, currentStockPrices) ==
    IF /\ position.status = "assigned"
       /\ position.ownsStock
       /\ Truthy(position.stockCostBasis)
       /\ Truthy(position.stockQuantity)
       /\ toUpperCase(position.stockTicker) \in DOMAIN currentStockPrices
       /\ currentStockPrices[toUpperCase(position.stockTicker)] # 0
    THEN (currentStockPrices[toUpperCase(position.stockTicker)]
            - Val(position.stockCostBasis)) * Val(position.stockQuantity)
    ELSE 0

\* the capital of a covered call always taken from the strike
CapitalAllocatedByStrike(position) ==
    IF position.status \in {"open", "assigned"} THEN
        IF position.type = "put" THEN position.strike * position.contracts * 100
        ELSE IF position.type = "call" /\ position.ownsStock
        THEN position.strike * position.contracts * 100
        ELSE 0
    ELSE 0

\* what one position adds to totalCapitalAllocated
CapitalAllocated(position) ==
    IF position.status \in {"open", "assigned"} THEN
        IF position.type = "put" THEN position.strike * position.contracts * 100
        ELSE IF position.type = "call" /\ position.ownsStock THEN
            IF position.ownsStock /\ Truthy(position.stockCostBasis)
            THEN Val(position.stockCostBasis) * position.contracts * 100
            ELSE position.strike * position.contracts * 100
        ELSE 0
    ELSE 0

\* what one position adds to realizedPL
MetricsRealized(position) ==
    IF position.status = "closed" THEN OrZero(position.realizedPL)
    ELSE IF position.status = "assigned" THEN OrZero(position.premiumRealizedPL)
    ELSE 0

\* the premium component counted for closed positions alone
MetricsPremiumRealizedClosedOnly(position) ==
    IF position.status = "closed" THEN OrZero(position.premiumRealizedPL) ELSE 0

\* what one position adds to premiumRealizedPL
MetricsPremiumRealized(position) ==
    IF position.status \in {"closed", "assigned"}
    THEN OrZero(position.premiumRealizedPL) ELSE 0

\* what one position adds to stockRealizedPL
MetricsStockRealized(position) ==
    IF position.status = "closed" THEN OrZero(position.stockRealizedPL) ELSE 0

\* what one position adds to premiumUnrealizedPL
MetricsPremiumUnrealized(position) ==
    IF position.status = "open"
    THEN PremiumCollected(position) - OrZero(position.openFees) ELSE 0

\* what one position adds to closedPremiumCollected
MetricsClosedPremium(position) ==
    IF position.status = "closed"
    THEN PremiumCollected(position)
           - OrZero(position.premiumPaidToClose) * position.contracts * 100
    ELSE IF position.status = "assigned" THEN PremiumCollected(position)
    ELSE 0

PortfolioMetrics(positions, currentStockPrices) ==
    LET ids == DOMAIN positions
        Count(status) == Cardinality({i \in ids : positions[i].status = status})
        premiumUnrealizedPL ==
            Sum([i \in ids |-> MetricsPremiumUnrealized(positions[i])], ids)
        stockUnrealizedPL ==
            Sum([i \in ids |-> StockUnrealized(positions[i], currentStockPrices)], ids)
    IN  [totalPositions |-> Cardinality(ids),
         openPositions |-> Count("open"),
         closedPositions |-> Count("closed"),
         assignedPositions |-> Count("assigned"),
         realizedPL |->
            Round2(Sum([i \in ids |-> MetricsRealized(positions[i])], ids)),
         premiumRealizedPL |->
            Round2(Sum([i \in ids |-> MetricsPremiumRealized(positions[i])], ids)),
         stockRealizedPL |->
            Round2(Sum([i \in ids |-> MetricsStockRealized(positions[i])], ids)),
         unrealizedPL |-> Round2(premiumUnrealizedPL + stockUnrealizedPL),
         premiumUnrealizedPL |-> Round2(premiumUnrealizedPL),
         stockUnrealizedPL |-> Round2(stockUnrealizedPL),
         openPremiumCollected |->
            Round2(Sum([i \in ids |->
                          IF positions[i].status = "open"
                          THEN PremiumCollected(positions[i]) ELSE 0], ids)),
         closedPremiumCollected |->
            Round2(Sum([i \in ids |-> MetricsClosedPremium(positions[i])], ids)),
         totalCapitalAllocated |->
            Round2(Sum([i \in ids |-> CapitalAllocated(positions[i])], ids)),
         totalFees |->
            Round2(Sum([i \in ids |-> OrZero(positions[i].openFees)
                                        + OrZero(positions[i].closeFees)], ids))]

GetMetrics ==
    /\ \E currentStockPrices \in PriceMaps(StockTickers(store)) :
          res' = [Response("metrics", 200, 0, NoReq, Null)
                    EXCEPT !.prices = currentStockPrices,
                           !.metrics = Some(PortfolioMetrics(store, currentStockPrices))]
    /\ UNCHANGED <<store, nextId, writes>>
    /\ UNCHANGED <<alertVars, priceVars, tabVars>>

(* ---------------------------------------------------------------------- *)
(* Properties of the stored positions                                      *)
(* ---------------------------------------------------------------------- *)
\* the last request was an update that went through
Patched == res.op = "PATCH" /\ res.code = 200
\* the record the last update found, and the record it left
Before == Val(res.prev)
After == store[res.id]

\* the status a record's own stored fields call for
DerivedStatus(p) ==
    IF p.closeDate # Null THEN "closed"
    ELSE IF p.assigned /\ p.ownsStock THEN "assigned"
    ELSE "open"

\* C1: after any sequence of creates and updates every stored position's
\* status is the one derived from its own stored close date, assigned flag
\* and stock-owned flag, and is one of open, closed, assigned.
C1_StatusDerived ==
    \A id \in DOMAIN store :
        /\ store[id].status = DerivedStatus(store[id])
        /\ store[id].status \in {"open", "closed", "assigned"}

\* an update turned a position into an assigned one
C1_Witness ==
    /\ Patched
    /\ Before.status = "open"
    /\ ~Before.ownsStock
    /\ After.status = "assigned"

\* C2: a stored position has realizedPL, premiumRealizedPL and
\* stockRealizedPL all non-null exactly when it is closed or assigned, and
\* all three null when it is open, also after an update that reverts it.
C2_RealizedIffSettled ==
    \A id \in DOMAIN store :
        LET p == store[id]
        IN  IF p.status \in {"closed", "assigned"}
            THEN p.realizedPL # Null /\ p.premiumRealizedPL # Null
                   /\ p.stockRealizedPL # Null
            ELSE p.realizedPL = Null /\ p.premiumRealizedPL = Null
                   /\ p.stockRealizedPL = Null

\* an update reverted a closed position to open and its P/L is gone
C2_Witness ==
    /\ Patched
    /\ Before.status = "closed"
    /\ Before.premiumRealizedPL # Null
    /\ After.status = "open"
    /\ After.premiumRealizedPL = Null

\* the last update cleared the close date of a closed position
ClearedCloseDate ==
    /\ Patched
    /\ Before.status = "closed"
    /\ "closeDate" \in DOMAIN res.req
    /\ res.req.closeDate = ""

\* C3: when an update clears the close date of a closed position, the
\* stored close date is empty afterwards and the stored status is assigned
\* if the assigned and stock-owned flags are both set, open otherwise.
C3_RevertClosed ==
    ClearedCloseDate =>
        /\ After.closeDate = Null
        /\ After.status =
             IF After.assigned /\ After.ownsStock THEN "assigned" ELSE "open"

\* a closed position with both flags set was reverted to assigned
C3_Witness ==
    /\ ClearedCloseDate
    /\ After.assigned /\ After.ownsStock
    /\ After.status = "assigned"

\* the fields a client supplies, as opposed to the ones the handlers derive
InputFields ==
    {"stockTicker", "type", "contracts", "strike", "premium", "ownsStock",
     "stockCostBasis", "stockQuantity", "stockSalePrice", "assigned",
     "openFees", "closeDate", "premiumPaidToClose", "closeFees"}

\* the fields the last update supplied, each as the value to be stored
Supplied ==
    [k \in DOMAIN res.req |->
        IF k = "stockTicker" THEN toUpperCase(res.req[k])
        ELSE IF k = "closeDate"
        THEN (IF res.req[k] = "" THEN Null ELSE Some(ParseDate(res.req[k])))
        ELSE res.req[k]]

\* the existing record overlaid with the supplied fields
Merged == Supplied @@ Before

\* the derived fields of a stored record
StoredMetrics(p) ==
    [status |-> p.status, realizedPL |-> p.realizedPL,
     premiumRealizedPL |-> p.premiumRealizedPL,
     stockRealizedPL |-> p.stockRealizedPL]

\* the quantity an update stores: the merged one, or contracts * 100 when
\* the merged record owns stock and has none
DefaultedQuantity ==
    IF Merged.ownsStock /\ (Merged.stockQuantity = Null \/ Merged.stockQuantity = Some(0))
    THEN Some(Merged.contracts * 100)
    ELSE IF Merged.stockQuantity = Some(0) THEN Null ELSE Merged.stockQuantity

\* C4 as stated: an update changes only the supplied fields, and stores the
\* status and realized P/L of the calculator applied to the existing record
\* overlaid with the supplied fields.
C4_OnlySuppliedChange ==
    Patched =>
        /\ \A k \in InputFields \ DOMAIN res.req : After[k] = Before[k]
        /\ StoredMetrics(After) = calculatePositionMetrics(Merged)

\* C4 as amended: an update leaves every input field it was not given
\* unchanged except stockQuantity, which becomes contracts * 100 when the
\* merged record owns stock and has no quantity; wheelCycleName follows a
\* supplied ticker; the stored status and realized P/L are the calculator's
\* for the merged record with that quantity, not for the supplied fields
\* alone: a closed position given only closeFees has its premiumRealizedPL
\* recomputed with the existing premium, contracts, premiumPaidToClose and
\* openFees.
C4_MergedRecompute ==
    Patched =>
        /\ \A k \in DOMAIN res.req \ {"stockQuantity"} : After[k] = Supplied[k]
        /\ \A k \in InputFields \ (DOMAIN res.req \cup {"stockQuantity"}) :
              After[k] = Before[k]
        /\ After.stockQuantity = DefaultedQuantity
        /\ After.wheelCycleName =
              IF "stockTicker" \in DOMAIN res.req
              THEN Some(Supplied.stockTicker) ELSE Before.wheelCycleName
        /\ StoredMetrics(After) =
              calculatePositionMetrics([stockQuantity |-> DefaultedQuantity] @@ Merged)
        /\ (DOMAIN res.req = {"closeFees"} /\ Before.status = "closed" =>
              After.premiumRealizedPL =
                 Some(Before.premium * Before.contracts * 100
                        - OrZero(Before.premiumPaidToClose) * Before.contracts * 100
                        - (OrZero(Before.openFees) + Val(res.req.closeFees))))

\* only the close fees of a closed position were updated, and its premium
\* P/L changed by the difference in fees
C4_Witness ==
    /\ Patched
    /\ DOMAIN res.req = {"closeFees"}
    /\ Before.status = "closed"
    /\ Truthy(Before.premiumPaidToClose) /\ Truthy(Before.openFees)
    /\ Truthy(Before.closeFees)
    /\ Val(After.premiumRealizedPL) =
          Val(Before.premiumRealizedPL) + Val(Before.closeFees) - Val(res.req.closeFees)

\* C5: for every closed position premiumRealizedPL = premium * contracts *
\* 100 - premiumPaidToClose * contracts * 100 - (openFees + closeFees) with
\* absent fields counted as 0, stockRealizedPL = (stockSalePrice -
\* stockCostBasis) * stockQuantity when all three are present and 0 when one
\* is absent, and realizedPL is their sum.
C5_ClosedPL ==
    \A id \in DOMAIN store :
        LET p == store[id]
            Or0(x) == IF x = Null THEN 0 ELSE Val(x)
            premiumPL == p.premium * p.contracts * 100
                           - Or0(p.premiumPaidToClose) * p.contracts * 100
                           - (Or0(p.openFees) + Or0(p.closeFees))
            stockPL == IF p.stockSalePrice # Null /\ p.stockCostBasis # Null
                          /\ p.stockQuantity # Null
                       THEN (Val(p.stockSalePrice) - Val(p.stockCostBasis))
                              * Val(p.stockQuantity)
                       ELSE 0
        IN  p.status = "closed" =>
                /\ p.premiumRealizedPL = Some(premiumPL)
                /\ p.stockRealizedPL = Some(stockPL)
                /\ p.realizedPL = Some(premiumPL + stockPL)

\* a closed put with premium 2.00, one contract, 0.50 paid to close and fees
\* of 1 + 1 has 148, 0, 148; another closed position sold its stock at a gain
C5_Witness ==
    /\ \E id \in DOMAIN store :
          /\ store[id].status = "closed"
          /\ store[id].contracts = 1
          /\ store[id].premiumPaidToClose = Some(500)
          /\ store[id].stockSalePrice = Null
          /\ store[id].premiumRealizedPL = Some(148000)
          /\ store[id].stockRealizedPL = Some(0)
          /\ store[id].realizedPL = Some(148000)
    /\ \E id \in DOMAIN store :
          /\ store[id].status = "closed"
          /\ store[id].contracts = 2
          /\ store[id].stockRealizedPL = Some(150000)

\* C6: for every assigned position premiumRealizedPL = premium * contracts *
\* 100 - openFees, with neither the close fees nor premiumPaidToClose
\* subtracted, stockRealizedPL = 0 and realizedPL = premiumRealizedPL.
C6_AssignedPL ==
    \A id \in DOMAIN store :
        LET p == store[id]
            premiumPL == p.premium * p.contracts * 100
                           - (IF p.openFees = Null THEN 0 ELSE Val(p.openFees))
        IN  (p.assigned /\ p.ownsStock /\ p.closeDate = Null) =>
                /\ p.status = "assigned"
                /\ p.premiumRealizedPL = Some(premiumPL)
                /\ p.stockRealizedPL = Some(0)
                /\ p.realizedPL = p.premiumRealizedPL

\* an assigned position that carries close fees and a price paid to close
C6_Witness ==
    \E id \in DOMAIN store :
        /\ store[id].status = "assigned"
        /\ Truthy(store[id].closeFees)
        /\ Truthy(store[id].premiumPaidToClose)
        /\ Truthy(store[id].openFees)
        /\ store[id].premiumRealizedPL =
              Some(store[id].premium * store[id].contracts * 100 - 1005)

(* ---------------------------------------------------------------------- *)
(* Properties of the aggregates                                            *)
(* ---------------------------------------------------------------------- *)
\* the last response lists the wheel cycles of the current store
CyclesListed == res.op = "cycles"
\* the last response is the portfolio snapshot of the current store
MetricsReported == res.op = "metrics"

\* the positions grouped under one cycle name
Group(name) ==
    [i \in {j \in DOMAIN store : CycleName(store[j]) = name} |-> store[i]]

\* C7: every cycle the Wheel Cycle Aggregator returns is completed if and
\* only if its openPositions count is 0 and its closedPositions count is
\* greater than 0, and active otherwise.
C7_CycleStatus ==
    CyclesListed =>
        \A k \in DOMAIN res.cycles :
            LET c == res.cycles[k]
            IN  /\ c.status \in {"active", "completed"}
                /\ c.status = "completed" <=>
                      (c.openPositions = 0 /\ c.closedPositions > 0)
                /\ c.closedPositions =
                      Cardinality({i \in DOMAIN Group(c.name) :
                                     store[i].closeDate # Null})

\* one open and one closed position on XYZ: an active cycle counting 1 and 1
C7_Witness ==
    /\ CyclesListed
    /\ \E i, j \in DOMAIN store :
          /\ store[i].stockTicker = "XYZ" /\ store[i].status = "open"
          /\ store[j].stockTicker = "XYZ" /\ store[j].status = "closed"
    /\ \E k \in DOMAIN res.cycles :
          /\ res.cycles[k].name = "XYZ"
          /\ res.cycles[k].openPositions = 1
          /\ res.cycles[k].closedPositions = 1
          /\ res.cycles[k].status = "active"

\* C8: for every cycle, the realizedPL of the cycle is the realizedPL the
\* Portfolio Aggregator reports for the positions of that group, and the
\* unrealizedPL of the cycle is the Portfolio Aggregator's
\* premiumUnrealizedPL for that group.
C8_SameAccrual ==
    CyclesListed =>
        \A k \in DOMAIN res.cycles :
            LET c == res.cycles[k]
                m == PortfolioMetrics(Group(c.name), NoPrices)
            IN  /\ c.realizedPL = m.realizedPL
                /\ c.unrealizedPL = m.premiumUnrealizedPL

\* the contribution C9 gives one position
C9_Contribution(p, prices) ==
    IF /\ p.status = "assigned"
       /\ toUpperCase(p.stockTicker) \in DOMAIN prices
    THEN (prices[toUpperCase(p.stockTicker)] - Val(p.stockCostBasis))
           * Val(p.stockQuantity)
    ELSE 0

\* every assigned position has its cost basis and its quantity
C9_Covered ==
    \A i \in DOMAIN store :
        store[i].status = "assigned" =>
            store[i].stockCostBasis # Null /\ store[i].stockQuantity # Null

\* C9: stockUnrealizedPL is the sum, over the assigned positions that have
\* a cost basis and a quantity, of (currentPrice - costBasis) * quantity
\* when the price of the uppercased ticker is available and of 0 when it is
\* not; open and closed positions add nothing.
C9_StockUnrealized ==
    (MetricsReported /\ C9_Covered) =>
        Val(res.metrics).stockUnrealizedPL =
            Round2(Sum([i \in DOMAIN store |-> C9_Contribution(store[i], res.prices)],
                       DOMAIN store))

\* cost basis 98, quantity 100, price 101: the assigned position adds 300,
\* next to an open position that owns stock and adds nothing
C9_Witness ==
    /\ MetricsReported
    /\ C9_Covered
    /\ \E i \in DOMAIN store :
          /\ store[i].status = "assigned"
          /\ store[i].stockCostBasis = Some(98000)
          /\ store[i].stockQuantity = Some(100)
          /\ res.prices = [t \in {store[i].stockTicker} |-> 101000]
    /\ \E j \in DOMAIN store :
          store[j].status = "open" /\ store[j].ownsStock
             /\ store[j].stockCostBasis # Null
    /\ Val(res.metrics).stockUnrealizedPL = 300000

\* the capital C10 gives one position
C10_Capital(p) ==
    IF p.status = "closed" THEN 0
    ELSE IF p.type = "put" THEN p.strike * p.contracts * 100
    ELSE IF ~p.ownsStock THEN 0
    ELSE IF p.stockCostBasis # Null THEN Val(p.stockCostBasis) * p.contracts * 100
    ELSE p.strike * p.contracts * 100

\* C10: totalCapitalAllocated is the sum over the open and assigned
\* positions of strike * contracts * 100 for a put, of costBasis * contracts
\* * 100 (strike * contracts * 100 without a cost basis) for a call with
\* stock owned, and of 0 for a call without; closed positions add 0.
C10_CapitalAllocated ==
    MetricsReported =>
        Val(res.metrics).totalCapitalAllocated =
            Sum([i \in DOMAIN store |-> C10_Capital(store[i])], DOMAIN store)

\* a covered call with a cost basis next to a closed put
C10_Witness ==
    /\ MetricsReported
    /\ \E i, j \in DOMAIN store :
          /\ store[i].type = "call" /\ store[i].ownsStock
          /\ store[i].status # "closed"
          /\ store[i].stockCostBasis = Some(98000)
          /\ store[j].type = "put" /\ store[j].status = "closed"
          /\ Val(res.metrics).totalCapitalAllocated = 98000 * store[i].contracts * 100

Next ==
    \/ \E body \in PostBodies : POST(body)
    \/ \E id \in RequestIds, body \in PatchBodies : PATCH(id, body)
    \/ \E id \in RequestIds : DELETE(id)
    \/ \E id \in RequestIds : GET(id)
    \/ GetWheelCycles
    \/ GetMetrics

Spec == Init /\ [][Next]_vars

(* ---------------------------------------------------------------------- *)
(* Alert Engine (lib/strategies)                                           *)
(* ---------------------------------------------------------------------- *)
\* a position as the engine reads it
OptionPosition(id, stockTicker, type, strike, premium, status) ==
    [id |-> id, stockTicker |-> stockTicker, type |-> type, strike |-> strike,
     premium |-> premium, status |-> status]

StrategyAlert(position, type, targetPrice, threshold, currentDistance, urgency) ==
    [positionId |-> position.id,
     ticker |-> position.stockTicker,
     type |-> type,
     targetPrice |-> targetPrice,
     threshold |-> threshold,
     currentDistance |-> currentDistance,
     urgency |-> urgency,
     position |-> position]

\* (a / b) * 100
PercentOf(a, b) == (a * Pct(100)) \div b

TargetRollPrice(position, config) ==
    (position.strike * (Pct(100) + config.rollThreshold)) \div Pct(100)

\* the approach band taken a whole percent wide
ApproachPriceWholePercent(position, config) ==
    (position.strike * (Pct(100) + config.rollThreshold - Pct(1))) \div Pct(100)

ApproachPrice(position, config) ==
    (position.strike * (Pct(100) + config.rollThreshold - Pct(1) \div 2))
        \div Pct(100)

\* medium urgency starting at half a percent past the threshold
RollUrgencyFromHalfPercent(overshootPercent) ==
    IF overshootPercent >= Pct(1) THEN "high"
    ELSE IF overshootPercent >= Pct(1) \div 2 THEN "medium"
    ELSE "low"

RollUrgency(overshootPercent) ==
    IF overshootPercent >= Pct(1) THEN "high"
    ELSE IF overshootPercent >= Pct(1) \div 4 THEN "medium"
    ELSE "low"

calculateRollAlert(position, currentPrice, config) ==
    LET targetRollPrice == TargetRollPrice(position, config)
        currentDistancePercent ==
            PercentOf(currentPrice - position.strike, position.strike)
        overshoot == currentPrice - targetRollPrice
        overshootPercent == PercentOf(overshoot, position.strike)
        approachPrice == ApproachPrice(position, config)
    IN  IF position.status # "open" THEN Null
        ELSE IF currentPrice >= targetRollPrice THEN
            Some(StrategyAlert(position, "roll", targetRollPrice,
                               config.rollThreshold, currentDistancePercent,
                               RollUrgency(overshootPercent)))
        ELSE IF currentPrice >= approachPrice /\ currentPrice < targetRollPrice THEN
            Some(StrategyAlert(position, "warning", targetRollPrice,
                               config.rollThreshold, currentDistancePercent,
                               "low"))
        ELSE Null

\* the close check without the status guard
calculateCloseAlertAnyStatus(position, currentOptionPrice, config) ==
    LET price == Val(currentOptionPrice)
        targetClosePrice ==
            (position.premium * (Pct(100) - config.closeThreshold)) \div Pct(100)
        profitPercent == PercentOf(position.premium - price, position.premium)
    IN  IF currentOptionPrice = Null THEN Null
        ELSE IF price <= targetClosePrice THEN
            Some(StrategyAlert(position, "close", targetClosePrice,
                               config.closeThreshold, profitPercent,
                               IF profitPercent >= config.closeThreshold + Pct(5)
                               THEN "high" ELSE "medium"))
        ELSE Null

calculateCloseAlert(position, currentOptionPrice, config) ==
    LET price == Val(currentOptionPrice)
        targetClosePrice ==
            (position.premium * (Pct(100) - config.closeThreshold)) \div Pct(100)
        profitPercent == PercentOf(position.premium - price, position.premium)
    IN  IF position.status # "open" THEN Null
        ELSE IF currentOptionPrice = Null THEN Null
        ELSE IF price <= targetClosePrice THEN
            Some(StrategyAlert(position, "close", targetClosePrice,
                               config.closeThreshold, profitPercent,
                               IF profitPercent >= config.closeThreshold + Pct(5)
                               THEN "high" ELSE "medium"))
        ELSE Null

\* a nullable alert as the alerts it pushes
Pushed(alert) == IF alert = Null THEN <<>> ELSE <<Val(alert)>>

\* the roll check and the approach check run one after the other
calculatePositionAlertsBothChecks(position, currentStockPrice, currentOptionPrice, config) ==
    (IF Truthy(currentStockPrice)
     THEN Pushed(calculateRollAlert(position, Val(currentStockPrice), config))
          \o (IF position.status = "open"
                 /\ Val(currentStockPrice) >= ApproachPrice(position, config)
              THEN <<StrategyAlert(position, "warning",
                                   TargetRollPrice(position, config),
                                   config.rollThreshold,
                                   PercentOf(Val(currentStockPrice) - position.strike,
                                             position.strike),
                                   "low")>>
              ELSE <<>>)
     ELSE <<>>)
    \o (IF Truthy(currentOptionPrice)
        THEN Pushed(calculateCloseAlert(position, currentOptionPrice, config))
        ELSE <<>>)

calculatePositionAlerts(position, currentStockPrice, currentOptionPrice, config) ==
    (IF Truthy(currentStockPrice)
     THEN Pushed(calculateRollAlert(position, Val(currentStockPrice), config))
     ELSE <<>>)
    \o (IF Truthy(currentOptionPrice)
        THEN Pushed(calculateCloseAlert(position, currentOptionPrice, config))
        ELSE <<>>)

\* map.get(key): undefined when the key is missing
MapGet(map, key) == IF key \in DOMAIN map THEN Some(map[key]) ELSE Null

urgencyOrder(urgency) ==
    CASE urgency = "high" -> 0
      [] urgency = "medium" -> 1
      [] urgency = "low" -> 2

Abs(x) == IF x < 0 THEN -x ELSE x

\* the comparator with the nearest alert first
CompareAlertsNearestFirst(a, b) ==
    IF urgencyOrder(a.urgency) # urgencyOrder(b.urgency)
    THEN urgencyOrder(a.urgency) - urgencyOrder(b.urgency)
    ELSE Abs(a.currentDistance) - Abs(b.currentDistance)

CompareAlerts(a, b) ==
    IF urgencyOrder(a.urgency) # urgencyOrder(b.urgency)
    THEN urgencyOrder(a.urgency) - urgencyOrder(b.urgency)
    ELSE Abs(b.currentDistance) - Abs(a.currentDistance)

\* Array.prototype.sort with CompareAlerts: a stable sort
RECURSIVE SortAlerts(_)
SortAlerts(alerts) ==
    IF alerts = <<>> THEN <<>>
    ELSE LET n == Len(alerts)
             sorted == SortAlerts(SubSeq(alerts, 1, n - 1))
             k == Cardinality({i \in 1..(n - 1) :
                                 CompareAlerts(sorted[i], alerts[n]) <= 0})
         IN  SubSeq(sorted, 1, k) \o <<alerts[n]>> \o SubSeq(sorted, k + 1, n - 1)

\* the alerts pushed for positions[1..n], in the order of the list
RECURSIVE PushedAlerts(_, _, _, _, _)
PushedAlerts(positions, n, stockPriceMap, optionPriceMap, config) ==
    IF n = 0 THEN <<>>
    ELSE LET position == positions[n]
             stockPrice == MapGet(stockPriceMap, toUpperCase(position.stockTicker))
             optionPrice == IF optionPriceMap = Null THEN Null
                            ELSE OrNull(MapGet(Val(optionPriceMap), position.id))
         IN  PushedAlerts(positions, n - 1, stockPriceMap, optionPriceMap, config)
             \o (IF position.status # "open" THEN <<>>
                 ELSE calculatePositionAlerts(position, OrNull(stockPrice),
                                              optionPrice, config))

calculateAllAlerts(positions, stockPriceMap, optionPriceMap, config) ==
    SortAlerts(PushedAlerts(positions, Len(positions), stockPriceMap,
                            optionPriceMap, config))

getStrategyConfig(activeStrategy, customRollThreshold, customCloseThreshold) ==
    IF activeStrategy = "standard" THEN STANDARD_STRATEGY
    ELSE [type |-> "custom",
          rollThreshold |-> customRollThreshold,
          closeThreshold |-> customCloseThreshold]

(* ---------------------------------------------------------------------- *)
(* The Alert Engine applied to drawn inputs                                *)
(* ---------------------------------------------------------------------- *)
\* a put on XYZ at 100.00 for 2.00, a call on ABC at 50.00 for 1.00, and a
\* second option on XYZ
EnginePosition(id, status) ==
    CASE id = 1 -> OptionPosition(1, "XYZ", "put", 100000, 2000, status)
      [] id = 2 -> OptionPosition(2, "ABC", "call", 50000, 1000, status)
      [] id = 3 -> OptionPosition(3, "XYZ", "call", 100000, 2000, status)

EnginePositionLists ==
    { <<>>,
      <<EnginePosition(1, "open")>>,
      <<EnginePosition(1, "open"), EnginePosition(2, "open")>>,
      <<EnginePosition(2, "open"), EnginePosition(1, "open")>>,
      <<EnginePosition(1, "closed"), EnginePosition(2, "open")>>,
      <<EnginePosition(1, "open"), EnginePosition(2, "assigned")>>,
      <<EnginePosition(1, "open"), EnginePosition(3, "open")>> }

\* quotes around the roll thresholds of the two strikes
StockQuotes(ticker) ==
    IF ticker = "XYZ"
    THEN {0, 102400, 102500, 102600, 103000, 103250, 103990, 104000, 105000}
    ELSE {51000, 51250, 51500, 52000, 52500}

StockPriceMaps ==
    UNION { [T -> StockQuotes("XYZ") \cup StockQuotes("ABC")] :
            T \in SUBSET {"XYZ", "ABC"} }

EngineStockPriceMaps ==
    { map \in StockPriceMaps : \A t \in DOMAIN map : map[t] \in StockQuotes(t) }

\* option quotes around the close thresholds of the two premiums
OptionQuotes(id) == IF id = 1 THEN {0, 400, 500, 600} ELSE {200}

EngineOptionPriceMaps ==
    {Null} \cup
    { Some(map) : map \in
        { m \in UNION { [I -> OptionQuotes(1) \cup OptionQuotes(2)] :
                        I \in SUBSET {1, 2} } :
            \A id \in DOMAIN m : m[id] \in OptionQuotes(id) } }

EngineConfigs ==
    { DEFAULT_STRATEGY_CONFIG,
      [DEFAULT_STRATEGY_CONFIG EXCEPT !.activeStrategy = "custom",
                                      !.customRollThreshold = Pct(5) \div 2,
                                      !.customCloseThreshold = Pct(80)],
      [DEFAULT_STRATEGY_CONFIG EXCEPT !.activeStrategy = "custom",
                                      !.customRollThreshold = Pct(1),
                                      !.customCloseThreshold = Pct(50)] }

ActiveConfig ==
    getStrategyConfig(strategyConfig.activeStrategy,
                      strategyConfig.customRollThreshold,
                      strategyConfig.customCloseThreshold)

EngineInit ==
    /\ EmptyStore
    /\ Idle
    /\ argPositions \in EnginePositionLists
    /\ argStockPrices \in EngineStockPriceMaps
    /\ argOptionPrices \in EngineOptionPriceMaps
    /\ strategyConfig \in EngineConfigs
    /\ localConfig = DEFAULT_STRATEGY_CONFIG
    /\ allAlerts = <<>>
    /\ activeAlerts = <<>>
    /\ effects = {}
    /\ storage = Null
    /\ now = 1
    /\ events = 0
    /\ call = Call("none", 0)

Evaluate ==
    /\ call.op = "none"
    /\ allAlerts' = calculateAllAlerts(argPositions, argStockPrices,
                                       argOptionPrices, ActiveConfig)
    /\ call' = Call("calculateAllAlerts", 0)
    /\ UNCHANGED <<argPositions, argStockPrices, argOptionPrices, strategyConfig,
                   activeAlerts, effects, localConfig, storage, now, events>>
    /\ UNCHANGED <<apiVars, priceVars, tabVars>>

EngineNext == Evaluate

EngineSpec == EngineInit /\ [][EngineNext]_vars

(* ---------------------------------------------------------------------- *)
(* Properties of an alert evaluation                                       *)
(* ---------------------------------------------------------------------- *)
Evaluated == call.op = "calculateAllAlerts"

\* the alerts of the given kinds listed for a position id
Listed(id, kinds) ==
    { i \in DOMAIN allAlerts :
        allAlerts[i].positionId = id /\ allAlerts[i].type \in kinds }

\* the open positions of the evaluated list whose ticker has a quote
Quoted ==
    { i \in DOMAIN argPositions :
        /\ argPositions[i].status = "open"
        /\ Truthy(MapGet(argStockPrices, argPositions[i].stockTicker)) }

QuoteOf(i) == argStockPrices[argPositions[i].stockTicker]

\* price - strike * (1 + threshold / 100), multiplied by 100 percent
Overshoot(i, threshold) ==
    Pct(100) * QuoteOf(i) - argPositions[i].strike * (Pct(100) + threshold)

\* C11: for an open position with a stock price, a roll alert is listed
\* exactly when price >= strike * (1 + rollThreshold / 100); its urgency is
\* high when the overshoot (price - target) / strike * 100 is at least 1,
\* medium when it is at least 0.25 and below 1, low otherwise; and its
\* distance is (price - strike) / strike * 100.
C11_RollAlert ==
    Evaluated =>
        \A i \in Quoted :
            LET position == argPositions[i]
                over == Overshoot(i, ActiveConfig.rollThreshold)
                rolls == Listed(position.id, {"roll"})
            IN  /\ (rolls # {}) <=> (over >= 0)
                /\ \A k \in rolls :
                      /\ allAlerts[k].urgency =
                            (IF over >= Pct(1) * position.strike THEN "high"
                             ELSE IF 4 * over >= Pct(1) * position.strike
                                  THEN "medium"
                             ELSE "low")
                      /\ allAlerts[k].currentDistance * position.strike =
                            Pct(100) * (QuoteOf(i) - position.strike)

\* strike 100, threshold 3, price 104: a roll alert of high urgency
C11_Witness ==
    /\ Evaluated
    /\ ActiveConfig.rollThreshold = Pct(3)
    /\ \E i \in Quoted :
          /\ argPositions[i].strike = 100000
          /\ QuoteOf(i) = 104000
          /\ \E k \in Listed(argPositions[i].id, {"roll"}) :
                allAlerts[k].urgency = "high"

\* C12: for an open position with a stock price, a warning alert is listed
\* exactly when strike * (1 + (rollThreshold - 0.5) / 100) <= price <
\* strike * (1 + rollThreshold / 100), always with urgency low; below that
\* band neither a roll nor a warning alert is listed.
C12_Warning ==
    Evaluated =>
        \A i \in Quoted :
            LET position == argPositions[i]
                threshold == ActiveConfig.rollThreshold
                inBand == /\ Overshoot(i, threshold - Pct(1) \div 2) >= 0
                          /\ Overshoot(i, threshold) < 0
                warnings == Listed(position.id, {"warning"})
            IN  /\ (warnings # {}) <=> inBand
                /\ \A k \in warnings : allAlerts[k].urgency = "low"
                /\ Overshoot(i, threshold - Pct(1) \div 2) < 0
                      => Listed(position.id, {"roll", "warning"}) = {}

\* strike 100, threshold 3, price 102.6: a warning of low urgency
C12_Witness ==
    /\ Evaluated
    /\ ActiveConfig.rollThreshold = Pct(3)
    /\ \E i \in Quoted :
          /\ argPositions[i].strike = 100000
          /\ QuoteOf(i) = 102600
          /\ \E k \in Listed(argPositions[i].id, {"warning"}) :
                allAlerts[k].urgency = "low"
    /\ \E i \in Quoted :
          /\ Overshoot(i, ActiveConfig.rollThreshold - Pct(1) \div 2) < 0
          /\ Listed(argPositions[i].id, {"roll", "warning"}) = {}

\* C13: an evaluation lists at most one roll-family alert (roll or
\* warning) per position id, whatever the positions, prices and thresholds.
C13_OneRollFamily ==
    Evaluated =>
        \A i \in DOMAIN argPositions :
            Cardinality(Listed(argPositions[i].id, {"roll", "warning"})) <= 1

\* a position listed with a roll alert and a close alert at once, next to
\* a position listed with a warning
C13_Witness ==
    /\ Evaluated
    /\ \E i \in DOMAIN argPositions :
          /\ Listed(argPositions[i].id, {"roll"}) # {}
          /\ Listed(argPositions[i].id, {"close"}) # {}
    /\ \E i \in DOMAIN argPositions :
          Listed(argPositions[i].id, {"warning"}) # {}

\* the prices the evaluation looks up for a position
StockPriceOf(position) == OrNull(MapGet(argStockPrices, position.stockTicker))
OptionPriceOf(position) ==
    IF argOptionPrices = Null THEN Null
    ELSE OrNull(MapGet(Val(argOptionPrices), position.id))

\* C14: every listed alert references a position of the evaluated list
\* whose status is open; a closed or assigned position gets no alert, from
\* the evaluation of the list and from the evaluation of the position alone.
C14_OnlyOpen ==
    Evaluated =>
        /\ \A k \in DOMAIN allAlerts :
              /\ allAlerts[k].position.status = "open"
              /\ \E i \in DOMAIN argPositions :
                    /\ argPositions[i] = allAlerts[k].position
                    /\ argPositions[i].id = allAlerts[k].positionId
        /\ \A i \in DOMAIN argPositions :
              argPositions[i].status \in {"closed", "assigned"} =>
                  /\ Listed(argPositions[i].id, {"roll", "warning", "close"}) = {}
                  /\ calculatePositionAlerts(argPositions[i],
                                             StockPriceOf(argPositions[i]),
                                             OptionPriceOf(argPositions[i]),
                                             ActiveConfig) = <<>>

\* a closed position quoted past its roll target and below its close
\* target, evaluated next to an open position that is listed
C14_Witness ==
    /\ Evaluated
    /\ allAlerts # <<>>
    /\ \E i \in DOMAIN argPositions :
          /\ argPositions[i].status = "closed"
          /\ Truthy(StockPriceOf(argPositions[i]))
          /\ Val(StockPriceOf(argPositions[i]))
                >= TargetRollPrice(argPositions[i], ActiveConfig)
          /\ Truthy(OptionPriceOf(argPositions[i]))
          /\ 4 * Val(OptionPriceOf(argPositions[i])) <= argPositions[i].premium

\* urgency u comes before urgency v in the order high, medium, low
Precedes(u, v) ==
    <<u, v>> \in {<<"high", "medium">>, <<"high", "low">>, <<"medium", "low">>}

\* C16: in the evaluated list, an alert whose urgency precedes another's in
\* the order high, medium, low stands before it, and of two alerts of equal
\* urgency the one with the larger absolute distance stands first.
C16_Ranked ==
    Evaluated =>
        \A i \in DOMAIN allAlerts, j \in DOMAIN allAlerts :
            /\ Precedes(allAlerts[i].urgency, allAlerts[j].urgency) => i < j
            /\ (/\ allAlerts[i].urgency = allAlerts[j].urgency
                /\ Abs(allAlerts[i].currentDistance)
                      > Abs(allAlerts[j].currentDistance)) => i < j

\* a list that the sort reordered, holding two urgencies and two alerts of
\* equal urgency at different distances
C16_Witness ==
    /\ Evaluated
    /\ allAlerts # PushedAlerts(argPositions, Len(argPositions), argStockPrices,
                                argOptionPrices, ActiveConfig)
    /\ \E i \in DOMAIN allAlerts, j \in DOMAIN allAlerts :
          Precedes(allAlerts[i].urgency, allAlerts[j].urgency)
    /\ \E i \in DOMAIN allAlerts, j \in DOMAIN allAlerts :
          /\ allAlerts[i].urgency = allAlerts[j].urgency
          /\ Abs(allAlerts[i].currentDistance) > Abs(allAlerts[j].currentDistance)

(* ---------------------------------------------------------------------- *)
(* localStorage: the configuration as JSON text                            *)
(* ---------------------------------------------------------------------- *)
\* Object.entries and Object.fromEntries
Entries(obj) == { <<k, obj[k]>> : k \in DOMAIN obj }
FromEntries(entries) ==
    [k \in { e[1] : e \in entries } |-> (CHOOSE e \in entries : e[1] = k)[2]]

\* array.includes(x)
Includes(array, x) == \E i \in DOMAIN array : array[i] = x

\* A JSON text: whether it parses, the members it gives a value, with the
\* timestamp object written as its key/value pairs, and the members it
\* gives null.  An object in memory is the record of its members that hold
\* a value: a member that holds null is left out of the record.
JSONstringify(config) ==
    [syntax |-> "json",
     nulls |-> DOMAIN DEFAULT_STRATEGY_CONFIG \ DOMAIN config,
     members |-> [k \in DOMAIN config |->
                     IF k = "dismissedAt" THEN Entries(config[k]) ELSE config[k]]]

JSONparse(text) ==
    [k \in DOMAIN text.members |->
        IF k = "dismissedAt" THEN FromEntries(text.members[k])
        ELSE text.members[k]]

\* the initial state of the hook: the stored members over the defaults; no
\* stored text, or a text that JSON.parse throws a SyntaxError on, gives
\* the defaults
LoadConfig(stored) ==
    IF stored = Null THEN DEFAULT_STRATEGY_CONFIG
    ELSE IF Val(stored).syntax # "json" THEN DEFAULT_STRATEGY_CONFIG
    ELSE LET merged == JSONparse(Val(stored)) @@ DEFAULT_STRATEGY_CONFIG
         IN  [k \in DOMAIN merged \ Val(stored).nulls |-> merged[k]]

(* ---------------------------------------------------------------------- *)
(* useStrategyAlerts                                                       *)
(* ---------------------------------------------------------------------- *)
\* the engine called with the option prices of a quote feed
MemoAllAlertsWithOptionPrices(positions, stockPriceMap, config) ==
    calculateAllAlerts(positions, stockPriceMap,
                       Some([id \in {1, 2} |-> 400]),
                       getStrategyConfig(config.activeStrategy,
                                         config.customRollThreshold,
                                         config.customCloseThreshold))

MemoAllAlerts(positions, stockPriceMap, config) ==
    calculateAllAlerts(positions, stockPriceMap, Null,
                       getStrategyConfig(config.activeStrategy,
                                         config.customRollThreshold,
                                         config.customCloseThreshold))

\* the active view without the dismissal filter
MemoActiveAlertsUnfiltered(alerts, config) == alerts

MemoActiveAlerts(alerts, config) ==
    LET Active(alert) == ~Includes(config.dismissedAlerts, alert.positionId)
    IN  SelectSeq(alerts, Active)

usePositionAlerts(position, alerts) ==
    LET Own(alert) == alert.positionId = position.id
    IN  SelectSeq(alerts, Own)

\* a render: both memos follow the arguments and the state
Render ==
    /\ allAlerts' = MemoAllAlerts(argPositions', argStockPrices', strategyConfig')
    /\ activeAlerts' = MemoActiveAlerts(allAlerts', strategyConfig')

\* the effects that a new strategyConfig object schedules, with the save
\* effect left out
ConfigEffectsSweepOnly == {"sweep"}

\* the effects that a new strategyConfig object schedules
ConfigEffects == {"save", "sweep"}

\* the effects that a new positions array schedules
PositionsEffects == {"sweep"}

\* the retention test against two days
KeptDismissalsTwoDays(config, t) ==
    LET Fresh(positionId) ==
            /\ positionId \in DOMAIN config.dismissedAt
            /\ config.dismissedAt[positionId] # 0
            /\ t - config.dismissedAt[positionId] < 2 * ALERT_REAPPEAR_HOURS
    IN  SelectSeq(config.dismissedAlerts, Fresh)

\* newDismissedAlerts of the sweep
KeptDismissals(config, t) ==
    LET hoursInMs == ALERT_REAPPEAR_HOURS
        Fresh(positionId) ==
            /\ positionId \in DOMAIN config.dismissedAt
            /\ config.dismissedAt[positionId] # 0
            /\ t - config.dismissedAt[positionId] < hoursInMs
    IN  SelectSeq(config.dismissedAlerts, Fresh)

\* the configuration the sweep effect leaves
Swept(config, t) ==
    LET newDismissedAlerts == KeptDismissals(config, t)
        newDismissedAt ==
            FromEntries({ e \in Entries(config.dismissedAt) :
                            Includes(newDismissedAlerts, e[1]) })
    IN  IF Len(newDismissedAlerts) # Len(config.dismissedAlerts)
        THEN [config EXCEPT !.dismissedAlerts = newDismissedAlerts,
                            !.dismissedAt = newDismissedAt]
        ELSE config

Dismissed(prev, positionId, t) ==
    [prev EXCEPT !.dismissedAlerts = Append(@, positionId),
                 !.dismissedAt = (positionId :> t) @@ @]

\* undismiss that forgets to delete the timestamp
UndismissedListOnly(prev, positionId) ==
    LET Other(id) == id # positionId
    IN  [prev EXCEPT !.dismissedAlerts = SelectSeq(@, Other)]

Undismissed(prev, positionId) ==
    LET Other(id) == id # positionId
    IN  [prev EXCEPT !.dismissedAlerts = SelectSeq(@, Other),
                     !.dismissedAt = [id \in DOMAIN @ \ {positionId} |-> @[id]]]

Cleared(prev) == [prev EXCEPT !.dismissedAlerts = <<>>, !.dismissedAt = <<>>]

(* ---------------------------------------------------------------------- *)
(* The mounted hook and the StrategySelector                               *)
(* ---------------------------------------------------------------------- *)
ROLL_THRESHOLD_RANGE == [min |-> Pct(1), max |-> Pct(10)]
CLOSE_THRESHOLD_RANGE == [min |-> Pct(50), max |-> Pct(90)]

\* Math.min(max, Math.max(min, parseFloat(value) || min)); a value that
\* does not parse is null
Clamped(value, range) ==
    LET parsed == IF Truthy(value) THEN Val(value) ELSE range.min
        raised == IF parsed > range.min THEN parsed ELSE range.min
    IN  IF raised < range.max THEN raised ELSE range.max

\* what the positions fetch delivers
HookPositionLists ==
    { <<EnginePosition(1, "open"), EnginePosition(2, "open")>>,
      <<EnginePosition(1, "open"), EnginePosition(2, "closed")>> }

\* what the price fetch delivers
HookStockPriceMaps ==
    { [t \in {"XYZ", "ABC"} |-> IF t = "XYZ" THEN 104000 ELSE 51250],
      [t \in {"XYZ"} |-> 102600] }

\* the position ids dismiss and undismiss are called with
HookIds == {1, 2}

\* the configuration a session left behind that dismissed position 1 at
\* hour 1 and position 2 at hour 25
PreviousSession ==
    Dismissed(Dismissed(DEFAULT_STRATEGY_CONFIG, 1, 1), 2, 25)

\* the first render of the page: no positions and no prices yet, the
\* configuration read from localStorage, both effects still to run
Mounted(stored, t) ==
    /\ EmptyStore
    /\ Idle
    /\ storage = stored
    /\ now = t
    /\ argPositions = <<>>
    /\ argStockPrices = EmptyMap
    /\ argOptionPrices = Null
    /\ strategyConfig = LoadConfig(storage)
    /\ localConfig = strategyConfig
    /\ allAlerts = MemoAllAlerts(argPositions, argStockPrices, strategyConfig)
    /\ activeAlerts = MemoActiveAlerts(allAlerts, strategyConfig)
    /\ effects = ConfigEffects
    /\ events = 0
    /\ call = Call("mount", 0)

HookInit ==
    \/ Mounted(Null, 1)
    \/ Mounted(Some(JSONstringify(PreviousSession)), 26)

\* an event is handled once the effects of the last render have run; a tree
\* that React unmounted after an uncaught error handles none
Handle(op, id) ==
    /\ effects = {}
    /\ call.op # "throw"
    /\ events < MaxEvents
    /\ events' = events + 1
    /\ call' = Call(op, id)
    /\ UNCHANGED <<apiVars, priceVars, tabVars, argOptionPrices>>

\* setStrategyConfig with the given next state
SetStrategyConfig(next) ==
    /\ strategyConfig' = next
    /\ effects' = ConfigEffects
    /\ UNCHANGED <<argPositions, argStockPrices, localConfig, storage, now>>
    /\ Render

setPositions(list) ==
    /\ Handle("setPositions", 0)
    /\ argPositions' = list
    /\ effects' = PositionsEffects
    /\ UNCHANGED <<argStockPrices, strategyConfig, localConfig, storage, now>>
    /\ Render

setStockPrices(map) ==
    /\ Handle("setStockPrices", 0)
    /\ argStockPrices' = map
    /\ UNCHANGED <<argPositions, strategyConfig, effects, localConfig, storage, now>>
    /\ Render

Tick(hours) ==
    /\ Handle("tick", 0)
    /\ now' = now + hours
    /\ UNCHANGED <<argPositions, argStockPrices, strategyConfig, allAlerts,
                   activeAlerts, effects, localConfig, storage>>

dismissAlert(positionId) ==
    /\ Handle("dismissAlert", positionId)
    /\ SetStrategyConfig(Dismissed(strategyConfig, positionId, now))

undismissAlert(positionId) ==
    /\ Handle("undismissAlert", positionId)
    /\ SetStrategyConfig(Undismissed(strategyConfig, positionId))

clearAllDismissed ==
    /\ Handle("clearAllDismissed", 0)
    /\ SetStrategyConfig(Cleared(strategyConfig))

updateStrategyConfig(updates) ==
    SetStrategyConfig(updates @@ strategyConfig)

\* StrategySelector: the edits of the dialog change its local copy only
SetLocalConfig(op, next) ==
    /\ Handle(op, 0)
    /\ localConfig' = next
    /\ UNCHANGED <<argPositions, argStockPrices, strategyConfig, allAlerts,
                   activeAlerts, effects, storage, now>>

onValueChange(value) ==
    SetLocalConfig("onValueChange", [localConfig EXCEPT !.activeStrategy = value])

onChangeRollThreshold(value) ==
    /\ localConfig.activeStrategy = "custom"
    /\ SetLocalConfig("onChangeRollThreshold",
                      [localConfig EXCEPT !.customRollThreshold =
                                              Clamped(value, ROLL_THRESHOLD_RANGE)])

onChangeCloseThreshold(value) ==
    /\ localConfig.activeStrategy = "custom"
    /\ SetLocalConfig("onChangeCloseThreshold",
                      [localConfig EXCEPT !.customCloseThreshold =
                                              Clamped(value, CLOSE_THRESHOLD_RANGE)])

handleSave ==
    /\ Handle("handleSave", 0)
    /\ updateStrategyConfig(localConfig)

handleCancel ==
    SetLocalConfig("handleCancel", strategyConfig)

\* a save that keeps the timestamps already stored
SaveEffectKeepingStored(stored, config) ==
    IF stored = Null \/ Val(stored).syntax # "json"
           \/ "dismissedAt" \notin DOMAIN Val(stored).members
    THEN Some(JSONstringify(config))
    ELSE Some([JSONstringify(config) EXCEPT
                  !.members.dismissedAt = @ \cup Val(stored).members.dismissedAt])

\* localStorage.setItem(STORAGE_KEY, JSON.stringify(strategyConfig)): the
\* stored value is replaced as a whole
SaveEffect(stored, config) == Some(JSONstringify(config))

\* the passive effects of the last render: the save effect, then the sweep
\* effect, whose setStrategyConfig renders again.  The sweep reads
\* dismissedAlerts.filter and Object.entries(dismissedAt): a TypeError when
\* either member is null, caught nowhere, and React unmounts the tree
RunEffects ==
    /\ effects # {}
    /\ storage' = IF "save" \in effects
                  THEN SaveEffect(storage, strategyConfig)
                  ELSE storage
    /\ UNCHANGED <<argPositions, argStockPrices, argOptionPrices, localConfig,
                   now, events>>
    /\ UNCHANGED <<apiVars, priceVars, tabVars>>
    /\ IF /\ "sweep" \in effects
          /\ ~({"dismissedAlerts", "dismissedAt"} \subseteq DOMAIN strategyConfig)
       THEN /\ call' = Call("throw", 0)
            /\ effects' = {}
            /\ UNCHANGED <<strategyConfig, allAlerts, activeAlerts>>
       ELSE /\ strategyConfig' = IF "sweep" \in effects
                                 THEN Swept(strategyConfig, now)
                                 ELSE strategyConfig
            /\ effects' = IF strategyConfig' # strategyConfig THEN ConfigEffects ELSE {}
            /\ call' = Call("effects", 0)
            /\ Render

HookNext ==
    \/ \E list \in HookPositionLists : setPositions(list)
    \/ \E map \in HookStockPriceMaps : setStockPrices(map)
    \/ \E hours \in {1, ALERT_REAPPEAR_HOURS} : Tick(hours)
    \/ \E positionId \in HookIds : dismissAlert(positionId)
    \/ \E positionId \in HookIds : undismissAlert(positionId)
    \/ clearAllDismissed
    \/ \E value \in {"standard", "custom"} : onValueChange(value)
    \/ \E value \in {Null, Some(Pct(12))} : onChangeRollThreshold(value)
    \/ \E value \in {Some(Pct(95))} : onChangeCloseThreshold(value)
    \/ handleSave
    \/ handleCancel
    \/ RunEffects

HookSpec == HookInit /\ [][HookNext]_vars

(* ---------------------------------------------------------------------- *)
(* Properties of the mounted hook                                          *)
(* ---------------------------------------------------------------------- *)
\* the position ids of the dismissal list
DismissalSet ==
    { strategyConfig.dismissedAlerts[i] : i \in DOMAIN strategyConfig.dismissedAlerts }

\* the alerts of a list that belong to a position id
AlertsFor(alerts, id) ==
    { alerts[i] : i \in { k \in DOMAIN alerts : alerts[k].positionId = id } }

\* C15: whatever positions, prices and configuration the hook has seen,
\* neither allAlerts nor activeAlerts holds an alert of kind close.
C15_NoCloseAlert ==
    /\ \A i \in DOMAIN allAlerts : allAlerts[i].type # "close"
    /\ \A i \in DOMAIN activeAlerts : activeAlerts[i].type # "close"

\* alerts listed under a custom threshold that the selector saved, for an
\* open position that collected a premium
C15_Witness ==
    /\ call.op = "effects"
    /\ strategyConfig.activeStrategy = "custom"
    /\ activeAlerts # <<>>
    /\ \E i \in DOMAIN allAlerts :
          /\ allAlerts[i].position.status = "open"
          /\ allAlerts[i].position.premium > 0

\* activeAlerts is allAlerts without the alerts of dismissed positions, and
\* the per-position view of allAlerts is the view of a fresh evaluation
C17_Filtered ==
    LET NotDismissed(alert) == alert.positionId \notin DismissalSet
    IN  /\ activeAlerts = SelectSeq(allAlerts, NotDismissed)
        /\ \A i \in DOMAIN argPositions :
              LET Own(alert) == alert.positionId = argPositions[i].id
              IN  usePositionAlerts(argPositions[i], allAlerts) =
                      SelectSeq(calculateAllAlerts(argPositions, argStockPrices,
                                                   Null, ActiveConfig), Own)

\* dismiss, undismiss and clear-all leave allAlerts as it was
C17_Untouched ==
    call'.op \in {"dismissAlert", "undismissAlert", "clearAllDismissed"}
        => allAlerts' = allAlerts

\* C17: in every state of the hook activeAlerts is exactly the sub-list of
\* allAlerts whose position id is not dismissed, and a dismiss, undismiss
\* or clear-all step does not change allAlerts, so the per-position view
\* still shows the alerts of a dismissed position.
C17_ActiveAlerts == [](C17_Filtered) /\ [][C17_Untouched]_vars

\* a dismiss has just hidden the alert of a position from the active view
\* while the per-position view still shows it
C17_Witness ==
    /\ call.op = "dismissAlert"
    /\ AlertsFor(allAlerts, call.id) # {}
    /\ AlertsFor(activeAlerts, call.id) = {}
    /\ activeAlerts # <<>>
    /\ \E i \in DOMAIN argPositions :
          /\ argPositions[i].id = call.id
          /\ usePositionAlerts(argPositions[i], allAlerts) # <<>>

\* C18: a position id is in the dismissal list exactly when the timestamp
\* map has an entry for it; right after dismiss(id) the id is in both with
\* the current time as its timestamp, right after undismiss(id) it is in
\* neither, and right after clear-all both are empty.
C18_Paired ==
    /\ DismissalSet = DOMAIN strategyConfig.dismissedAt
    /\ call.op = "dismissAlert" =>
          /\ call.id \in DismissalSet
          /\ call.id \in DOMAIN strategyConfig.dismissedAt
          /\ strategyConfig.dismissedAt[call.id] = now
    /\ call.op = "undismissAlert" =>
          /\ call.id \notin DismissalSet
          /\ call.id \notin DOMAIN strategyConfig.dismissedAt
    /\ call.op = "clearAllDismissed" =>
          /\ strategyConfig.dismissedAlerts = <<>>
          /\ DOMAIN strategyConfig.dismissedAt = {}

\* an undismiss has just removed one of two dismissals made at
\* different hours
C18_Witness ==
    /\ call.op = "undismissAlert"
    /\ DismissalSet # {}
    /\ \E id \in DismissalSet : strategyConfig.dismissedAt[id] = now
    /\ storage # Null
    /\ call.id \in { e[1] : e \in Val(storage).members.dismissedAt }

\* the age in hours of the dismissal of a position id
Age(id) == now - strategyConfig.dismissedAt[id]

\* a step of the sweep effect
Sweeps == call'.op = "effects" /\ "sweep" \in effects

C19_Sweep ==
    Sweeps =>
        /\ \A id \in DismissalSet :
              /\ Age(id) >= ALERT_REAPPEAR_HOURS + 1 =>
                    /\ ~Includes(strategyConfig'.dismissedAlerts, id)
                    /\ id \notin DOMAIN strategyConfig'.dismissedAt
                    /\ AlertsFor(activeAlerts', id) = AlertsFor(allAlerts', id)
              /\ Age(id) < ALERT_REAPPEAR_HOURS =>
                    /\ Includes(strategyConfig'.dismissedAlerts, id)
                    /\ id \in DOMAIN strategyConfig'.dismissedAt
                    /\ strategyConfig'.dismissedAt[id] = strategyConfig.dismissedAt[id]
        /\ \A id \in HookIds :
              Includes(strategyConfig'.dismissedAlerts, id)
                  <=> id \in DOMAIN strategyConfig'.dismissedAt

\* C19: the sweep of an evaluation pass drops a dismissal that is 25 hours
\* old (more than 24) from the id list and from the timestamp map, so that
\* the alert of its position is active again, keeps one that is 1 hour old
\* (less than 24) in both, and never leaves an id in one of the two without
\* the other.
C19_Expiry == [][C19_Sweep]_vars

\* the sweep of the first pass has dropped the dismissal of hour 1 and kept
\* the dismissal of hour 25, at hour 26
C19_Witness ==
    /\ call.op = "effects"
    /\ now = 26
    /\ storage = Some(JSONstringify(PreviousSession))
    /\ strategyConfig.dismissedAlerts = <<2>>
    /\ DOMAIN strategyConfig.dismissedAt = {2}
    /\ strategyConfig.dismissedAt[2] = 25

\* no render or effect of the hook is outstanding
Settled == effects = {}

C20_Saved ==
    Settled =>
        /\ storage = Some(JSONstringify(strategyConfig))
        /\ JSONparse(Val(storage)) = strategyConfig

C20_SaveScheduled ==
    strategyConfig' # strategyConfig => "save" \in effects'

StoredValues ==
    { Null,
      Some([syntax |-> "error", nulls |-> {}, members |-> [k \in {} |-> 0]]),
      Some(JSONstringify(PreviousSession)),
      Some([syntax |-> "json", nulls |-> {},
            members |-> [activeStrategy |-> "custom"]]),
      Some([syntax |-> "json", nulls |-> {"dismissedAlerts"},
            members |-> [k \in {} |-> 0]]),
      Some([syntax |-> "json", nulls |-> {"dismissedAt"},
            members |-> [dismissedAlerts |-> <<1>>]]) }

LoadInit == \E stored \in StoredValues : Mounted(stored, 26)

LoadNext ==
    \/ RunEffects
    \/ \E list \in HookPositionLists : setPositions(list)
    \/ \E map \in HookStockPriceMaps : setStockPrices(map)

LoadSpec == LoadInit /\ [][LoadNext]_vars

\* stored content that is not a configuration: a text that does not parse,
\* or one that gives null to a member
Malformed(text) == text.syntax # "json" \/ text.nulls # {}

\* C21: loading the strategy configuration never crashes: with nothing
\* stored, and with malformed stored content, the hook starts from the
\* defaults and the evaluation passes that follow run normally.
C21_LoadDefaults ==
    /\ call.op # "throw"
    /\ (call.op = "mount" /\ (storage = Null \/ Malformed(Val(storage))))
          => strategyConfig = DEFAULT_STRATEGY_CONFIG

\* the part of C21 the code keeps: nothing stored and a text that does not
\* parse give the defaults, and the first pass of the effects completes
C21_Unparsable ==
    (call.op = "mount" /\ (storage = Null \/ Val(storage).syntax # "json"))
        => /\ strategyConfig = DEFAULT_STRATEGY_CONFIG
           /\ {"dismissedAlerts", "dismissedAt"} \subseteq DOMAIN strategyConfig

(* ---------------------------------------------------------------------- *)
(* The price service: lib/stock-price and GET /api/stock-price/[ticker]    *)
(* ---------------------------------------------------------------------- *)
\* lookups started in one run
MaxLookups == 2
\* minutes of Date.now() in one run
MaxClock == 6

\* milliseconds
Minute == 60 * 1000
CACHE_DURATION == 5 * 60 * 1000

\* what yahooFinance.quote settles with: a quote with or without a price,
\* or an error
Reply(kind, regularMarketPrice, message) ==
    [kind |-> kind, regularMarketPrice |-> regularMarketPrice, message |-> message]
\* the market moves by a dollar a minute
MarketPrice(t) == 100000 + 1000 * (t \div Minute)
OracleReplies(t) ==
    { Reply("quote", Some(MarketPrice(t)), ""), Reply("quote", Null, ""),
      Reply("quote", Some(0), ""),
      Reply("error", Null, "Not Found"), Reply("error", Null, "timeout") }

\* a cache that serves entries for four minutes
CachedFourMinutes(cache, upperTicker, t) ==
    /\ upperTicker \in DOMAIN cache
    /\ t - cache[upperTicker].timestamp < 4 * Minute

\* cached && (now - cached.timestamp) < CACHE_DURATION
Cached(cache, upperTicker, t) ==
    /\ upperTicker \in DOMAIN cache
    /\ t - cache[upperTicker].timestamp < CACHE_DURATION

\* a lookup suspended at await yahooFinance.quote(upperTicker): the now it
\* read before the await, and its place in the batch that made it (0: none)
Awaited(id, fn, ticker, t, slot) ==
    [id |-> id, fn |-> fn, ticker |-> ticker, upperTicker |-> toUpperCase(ticker),
     now |-> t, slot |-> slot]

\* one promise of Promise.allSettled: pending, or fulfilled with a price or
\* with null
Promise(settled, price) == [settled |-> settled, price |-> price]

\* getStockPrice up to its return from the cache or its await
getStockPrice(ticker) ==
    /\ started < MaxLookups
    /\ started' = started + 1
    /\ LET upperTicker == toUpperCase(ticker)
       IN  IF Cached(priceCache, upperTicker, clock)
           THEN /\ last' = Step("return", "getStockPrice", ticker,
                                Some(priceCache[upperTicker].price), 0)
                /\ UNCHANGED inflight
           ELSE /\ inflight' = inflight \cup
                       {Awaited(started', "getStockPrice", ticker, clock, 0)}
                /\ last' = Step("quote", "getStockPrice", ticker, Null, 0)
    /\ UNCHANGED <<priceCache, routeCache, clock, batch>>
    /\ UNCHANGED <<apiVars, alertVars, tabVars>>

\* GET /api/stock-price/[ticker] up to its response from the cache or its
\* await
GETStockPrice(ticker) ==
    /\ started < MaxLookups
    /\ started' = started + 1
    /\ LET upperTicker == toUpperCase(ticker)
       IN  IF Cached(routeCache, upperTicker, clock)
           THEN /\ last' = Step("return", "GET", ticker,
                                Some(routeCache[upperTicker].price), 200)
                /\ UNCHANGED inflight
           ELSE /\ inflight' = inflight \cup {Awaited(started', "GET", ticker, clock, 0)}
                /\ last' = Step("quote", "GET", ticker, Null, 0)
    /\ UNCHANGED <<priceCache, routeCache, clock, batch>>
    /\ UNCHANGED <<apiVars, alertVars, tabVars>>

\* getMultipleStockPrices up to its await: every getStockPrice runs to its
\* return or to its own await
getMultipleStockPrices(tickers) ==
    /\ batch = Null
    /\ started + Len(tickers) <= MaxLookups
    /\ started' = started + Len(tickers)
    /\ LET Hit(i) == Cached(priceCache, toUpperCase(tickers[i]), clock)
           misses == { i \in DOMAIN tickers : ~Hit(i) }
       IN  /\ batch' = Some([tickers |-> tickers,
                             results |-> [i \in DOMAIN tickers |->
                                 IF Hit(i)
                                 THEN Promise(TRUE, Some(priceCache[toUpperCase(tickers[i])].price))
                                 ELSE Promise(FALSE, Null)]])
           /\ inflight' = inflight \cup
                  { Awaited(started + i, "getStockPrice", tickers[i], clock, i) :
                        i \in misses }
    /\ last' = Step("await", "getMultipleStockPrices", "", Null, 0)
    /\ UNCHANGED <<priceCache, routeCache, clock>>
    /\ UNCHANGED <<apiVars, alertVars, tabVars>>

\* the value getStockPrice returns once the oracle has settled
PriceOf(reply) ==
    IF reply.kind = "error" THEN Null
    ELSE IF ~Truthy(reply.regularMarketPrice) THEN Null
    ELSE reply.regularMarketPrice

\* the status of the route's response once the oracle has settled
ResponseStatus(reply) ==
    IF reply.kind = "error"
    THEN IF reply.message = "Not Found" THEN 404 ELSE 500
    ELSE IF ~Truthy(reply.regularMarketPrice) THEN 404
    ELSE 200

\* yahooFinance.quote settles and the lookup that awaited it runs to its end
quoteSettles(lookup, reply) ==
    /\ lookup \in inflight
    /\ inflight' = inflight \ {lookup}
    /\ LET price == PriceOf(reply)
       IN  /\ IF lookup.fn = "getStockPrice"
              THEN /\ priceCache' =
                          IF price # Null
                          THEN (lookup.upperTicker :>
                                  [price |-> Val(price), timestamp |-> lookup.now])
                                 @@ priceCache
                          ELSE priceCache
                   /\ UNCHANGED routeCache
                   /\ last' = Step("return", "getStockPrice", lookup.ticker, price, 0)
              ELSE /\ routeCache' =
                          IF price # Null
                          THEN (lookup.upperTicker :>
                                  [price |-> Val(price), timestamp |-> lookup.now])
                                 @@ routeCache
                          ELSE routeCache
                   /\ UNCHANGED priceCache
                   /\ last' = Step("return", "GET", lookup.ticker, price, ResponseStatus(reply))
           /\ batch' = IF lookup.slot = 0 THEN batch
                       ELSE Some([Val(batch) EXCEPT !.results[lookup.slot] = Promise(TRUE, price)])
    /\ UNCHANGED <<clock, started>>
    /\ UNCHANGED <<apiVars, alertVars, tabVars>>

\* the Map keyed by the tickers as they were passed
CollectedPricesAsPassed(tickers, results) ==
    LET priced == { i \in DOMAIN tickers : results[i].price # Null }
    IN  [ticker \in { tickers[i] : i \in priced } |->
            Val(results[CHOOSE i \in priced : tickers[i] = ticker].price)]

\* the Map that getMultipleStockPrices builds from the settled promises
CollectedPrices(tickers, results) ==
    LET priced == { i \in DOMAIN tickers : results[i].price # Null }
        Latest(upperTicker) ==
            CHOOSE i \in priced :
                /\ toUpperCase(tickers[i]) = upperTicker
                /\ \A j \in priced : toUpperCase(tickers[j]) = upperTicker => j <= i
    IN  [upperTicker \in { toUpperCase(tickers[i]) : i \in priced } |->
            Val(results[Latest(upperTicker)].price)]

\* Promise.allSettled resolves and getMultipleStockPrices returns its Map
allSettled ==
    /\ batch # Null
    /\ \A i \in DOMAIN Val(batch).results : Val(batch).results[i].settled
    /\ last' = [Step("return", "getMultipleStockPrices", "", Null, 0)
                   EXCEPT !.tickers = Val(batch).tickers,
                          !.results = Val(batch).results,
                          !.prices = CollectedPrices(Val(batch).tickers, Val(batch).results)]
    /\ batch' = Null
    /\ UNCHANGED <<priceCache, routeCache, clock, inflight, started>>
    /\ UNCHANGED <<apiVars, alertVars, tabVars>>

\* time passes between two steps of the server
Pass(minutes) ==
    /\ clock + minutes * Minute <= MaxClock * Minute
    /\ clock' = clock + minutes * Minute
    /\ last' = Step("pass", "", "", Null, 0)
    /\ UNCHANGED <<priceCache, routeCache, inflight, batch, started>>
    /\ UNCHANGED <<apiVars, alertVars, tabVars>>

PriceNext ==
    \/ \E ticker \in {"xyz", "XYZ", "abc"} : getStockPrice(ticker)
    \/ \E ticker \in {"xyz", "XYZ", "abc"} : GETStockPrice(ticker)
    \/ \E tickers \in {<<"xyz", "ABC">>, <<"ABC", "XYZ">>, <<"XYZ">>} :
          getMultipleStockPrices(tickers)
    \/ \E lookup \in inflight, reply \in OracleReplies(clock) : quoteSettles(lookup, reply)
    \/ allSettled
    \/ \E minutes \in {2, 3} : Pass(minutes)

PriceSpec == Init /\ [][PriceNext]_vars

(* ---------------------------------------------------------------------- *)
(* Properties of the price service                                         *)
(* ---------------------------------------------------------------------- *)
\* the keys of the caches
CacheKeys == {"XYZ", "ABC"}

\* the cache a lookup function reads
CacheOf(fn) == IF fn = "GET" THEN routeCache ELSE priceCache

\* the entry of a ticker, if there is one
Entry(cache, key) == IF key \in DOMAIN cache THEN Some(cache[key]) ELSE Null

\* the cache holds an entry for the ticker that is younger than 5 minutes
Younger(cache, key) ==
    /\ key \in DOMAIN cache
    /\ clock - cache[key].timestamp < 5 * Minute

\* a single lookup starts while the cache holds a young entry for its ticker
C22_Hit ==
    LET key == toUpperCase(last'.ticker)
    IN  (/\ started' = started + 1
         /\ last'.fn \in {"getStockPrice", "GET"}
         /\ Younger(CacheOf(last'.fn), key))
            => /\ last'.op = "return"
               /\ last'.price = Some(CacheOf(last'.fn)[key].price)
               /\ inflight' = inflight
               /\ priceCache' = priceCache
               /\ routeCache' = routeCache

\* a batch starts: its lookups of young entries are served from the cache
C22_BatchHit ==
    (last'.fn = "getMultipleStockPrices" /\ last'.op = "await")
        => \A i \in DOMAIN Val(batch').tickers :
              LET key == toUpperCase(Val(batch').tickers[i])
              IN  Younger(priceCache, key)
                     => /\ Val(batch').results[i] = Promise(TRUE, Some(priceCache[key].price))
                        /\ \A lookup \in inflight' \ inflight : lookup.slot # i

\* a step leaves the entries of every ticker other than its own as they are
C22_Isolated ==
    \A key \in CacheKeys :
        key # toUpperCase(last'.ticker)
            => /\ Entry(priceCache', key) = Entry(priceCache, key)
               /\ Entry(routeCache', key) = Entry(routeCache, key)

\* C22: for any ticker, compared after uppercasing, and any interleaving of
\* lookups, a lookup made while the cache holds an entry for that ticker
\* younger than 5 minutes returns the cached price and makes no oracle call;
\* lookups of different tickers leave each other's cache entries alone.
C22_Cache == [][C22_Hit /\ C22_BatchHit /\ C22_Isolated]_vars

\* a lookup of xyz was just served the price that an earlier lookup cached
\* under XYZ, while the market has moved on
C22_Witness ==
    /\ last.op = "return"
    /\ last.fn = "getStockPrice"
    /\ last.ticker = "xyz"
    /\ inflight = {}
    /\ "XYZ" \in DOMAIN priceCache
    /\ priceCache["XYZ"].timestamp < clock
    /\ priceCache["XYZ"].price = MarketPrice(priceCache["XYZ"].timestamp)
    /\ last.price = Some(priceCache["XYZ"].price)
    /\ last.price # Some(MarketPrice(clock))

\* a reply that carries no price: an error, a timeout, no price data
Failing(reply) == reply.kind = "error" \/ ~Truthy(reply.regularMarketPrice)

\* a getStockPrice whose oracle call fails returns null and caches nothing
C23_Failure ==
    \A lookup \in inflight, reply \in OracleReplies(clock) :
        (/\ lookup.fn = "getStockPrice"
         /\ Failing(reply)
         /\ quoteSettles(lookup, reply))
            => /\ last'.op = "return"
               /\ last'.price = Null
               /\ priceCache' = priceCache

\* the Map of a batch holds the priced tickers under their uppercase keys
\* and no other key
C23_Batch ==
    (last.op = "return" /\ last.fn = "getMultipleStockPrices")
        => /\ \A i \in DOMAIN last.tickers :
                 LET key == toUpperCase(last.tickers[i])
                 IN  IF last.results[i].price = Null
                     THEN key \notin DOMAIN last.prices
                     ELSE /\ key \in DOMAIN last.prices
                          /\ last.prices[key] = Val(last.results[i].price)
           /\ DOMAIN last.prices \subseteq
                 { toUpperCase(last.tickers[i]) : i \in DOMAIN last.tickers }

\* C23: a failed price fetch (oracle error, timeout, no price data) makes
\* getStockPrice return null instead of raising and leaves the cache as it
\* was; in a batch lookup a failing ticker is absent from the result map and
\* every priced ticker is present under its uppercase key.
C23_Failures == [](C23_Batch) /\ [][C23_Failure]_vars

\* a batch of xyz and ABC returned: the quote of xyz failed and the cache
\* holds nothing for it, ABC is priced
C23_Witness ==
    /\ last.op = "return"
    /\ last.fn = "getMultipleStockPrices"
    /\ last.tickers = <<"xyz", "ABC">>
    /\ last.results[1].price = Null
    /\ last.results[2].price # Null
    /\ DOMAIN last.prices = {"ABC"}
    /\ "XYZ" \notin DOMAIN priceCache

(* ---------------------------------------------------------------------- *)
(* Further properties of the server                                        *)
(* ---------------------------------------------------------------------- *)
\* a request for a position id that the store does not hold is answered
\* with 404 and the store is as before; a PATCH whose body fails the
\* validation is answered with 400 before the id is looked up
C24_Absent ==
    (/\ res'.op \in {"PATCH", "DELETE", "GET"}
     /\ res'.id \notin DOMAIN store
     /\ res'.code # 400)
        => /\ res'.code = 404
           /\ store' = store
           /\ writes' = writes

\* C24: update, delete and get of a position id absent from the store each
\* report a NotFound outcome, are not retried, and leave the store
\* unchanged.
C24_NotFound == [][C24_Absent]_vars

\* the part of C24 the code keeps: update and get of an absent id answer
\* 404, delete answers without a write, and the store is as before
C24_AbsentUnchanged ==
    (res'.op \in {"PATCH", "DELETE", "GET"} /\ res'.id \notin DOMAIN store)
        => /\ res'.op = "DELETE" => res'.code = 500
           /\ res'.op = "GET" => res'.code = 404
           /\ res'.op = "PATCH" => res'.code \in {400, 404}
           /\ store' = store
           /\ writes' = writes
C24_StoreKept == [][C24_AbsentUnchanged]_vars

(* ---------------------------------------------------------------------- *)
(* Several holders of the configuration                                    *)
(* ---------------------------------------------------------------------- *)
\* the pages and components that call useStrategyAlerts: each has its own
\* strategyConfig state and its own effects, all share localStorage
TabIds == {1, 2}

TabFrame ==
    UNCHANGED <<apiVars, priceVars, argPositions, argStockPrices, argOptionPrices,
                strategyConfig, allAlerts, activeAlerts, effects, localConfig, call>>

\* a holder handles an event once its own effects have run
TabHandle(h) ==
    /\ h \in DOMAIN holders
    /\ holders[h].effects = {}
    /\ events < MaxEvents
    /\ events' = events + 1
    /\ UNCHANGED <<storage, now, writer>>
    /\ TabFrame

\* setStrategyConfig of holder h
SetStrategyConfigIn(h, next) ==
    holders' = [holders EXCEPT ![h] = [strategyConfig |-> next,
                                       effects |-> ConfigEffects]]

\* a holder starts: its state is read from localStorage as it is then
Mount(h) ==
    /\ h \notin DOMAIN holders
    /\ events < MaxEvents
    /\ events' = events + 1
    /\ holders' = (h :> [strategyConfig |-> LoadConfig(storage),
                          effects |-> ConfigEffects]) @@ holders
    /\ UNCHANGED <<storage, now, writer>>
    /\ TabFrame

dismissAlertIn(h, positionId) ==
    /\ TabHandle(h)
    /\ SetStrategyConfigIn(h, Dismissed(holders[h].strategyConfig, positionId, now))

undismissAlertIn(h, positionId) ==
    /\ TabHandle(h)
    /\ SetStrategyConfigIn(h, Undismissed(holders[h].strategyConfig, positionId))

updateStrategyConfigIn(h, updates) ==
    /\ TabHandle(h)
    /\ SetStrategyConfigIn(h, updates @@ holders[h].strategyConfig)

\* the passive effects of holder h: its save effect, then its sweep effect
RunEffectsIn(h) ==
    /\ h \in DOMAIN holders
    /\ holders[h].effects # {}
    /\ storage' = SaveEffect(storage, holders[h].strategyConfig)
    /\ writer' = h
    /\ LET swept == Swept(holders[h].strategyConfig, now)
       IN  holders' = [holders EXCEPT ![h] =
               [strategyConfig |-> swept,
                effects |-> IF swept # holders[h].strategyConfig
                            THEN ConfigEffects ELSE {}]]
    /\ UNCHANGED <<now, events>>
    /\ TabFrame

\* time passes
TabTick(hours) ==
    /\ events < MaxEvents
    /\ events' = events + 1
    /\ now' = now + hours
    /\ UNCHANGED <<storage, holders, writer>>
    /\ TabFrame

TabsNext ==
    \/ \E h \in TabIds : Mount(h)
    \/ \E h \in TabIds, positionId \in HookIds : dismissAlertIn(h, positionId)
    \/ \E h \in TabIds, positionId \in HookIds : undismissAlertIn(h, positionId)
    \/ \E h \in TabIds, updates \in {[activeStrategy |-> "custom"]} :
          updateStrategyConfigIn(h, updates)
    \/ \E h \in TabIds : RunEffectsIn(h)
    \/ \E hours \in {1, ALERT_REAPPEAR_HOURS} : TabTick(hours)

TabsSpec == Init /\ [][TabsNext]_vars

\* the holder that wrote last has not changed its state since: the stored
\* text is its whole configuration
C25_LastWriter ==
    (writer # 0 /\ holders[writer].effects = {})
        => storage = Some(JSONstringify(holders[writer].strategyConfig))

\* the ids of the stored list are the keys of the stored timestamp map
C25_Consistent ==
    storage # Null
        => LET stored == JSONparse(Val(storage))
           IN  { stored.dismissedAlerts[i] : i \in DOMAIN stored.dismissedAlerts }
                  = DOMAIN stored.dismissedAt

\* a step in which the effects of holder h run writes the whole
\* configuration h rendered with
C25_Write ==
    \A h \in DOMAIN holders :
        (holders[h].effects # {} /\ holders'[h] # holders[h])
            => /\ storage' = Some(JSONstringify(holders[h].strategyConfig))
               /\ writer' = h

\* C25: concurrent writers of the strategy configuration resolve by
\* last-write-wins: when two holders, each loaded from storage at its own
\* start, interleave dismiss, undismiss and update, the persisted
\* configuration after any write is the full structure of the writer that
\* wrote last, so its dismissal list and timestamp map agree.
C25_LastWriteWins == [](C25_LastWriter /\ C25_Consistent) /\ [][C25_Write]_vars

\* holder 2 wrote last and its dismissal of position 2 is what is stored;
\* the dismissal of position 1 that holder 1 wrote before is lost
C25_Witness ==
    /\ DOMAIN holders = TabIds
    /\ writer = 2
    /\ holders[1].effects = {} /\ holders[2].effects = {}
    /\ holders[1].strategyConfig.dismissedAlerts = <<1>>
    /\ holders[2].strategyConfig.dismissedAlerts = <<2>>
    /\ storage = Some(JSONstringify(holders[2].strategyConfig))

\* the first position, in findMany's order, of the cycle with this name
FirstOf(name) ==
    CHOOSE i \in DOMAIN store :
        /\ CycleName(store[i]) = name
        /\ \A j \in DOMAIN store : CycleName(store[j]) = name => i <= j

\* C26: the list of the Wheel Cycle Aggregator places every active cycle
\* before every completed cycle and orders each group by descending total
\* P/L; the order is a function of the position set, ties included: cycles
\* of one group with equal total P/L stand in the order in which findMany
\* delivers their first positions.
C26_Ordered ==
    res.op = "cycles" =>
        \A i \in DOMAIN res.cycles, j \in DOMAIN res.cycles :
            i < j =>
                LET a == res.cycles[i]
                    b == res.cycles[j]
                IN  /\ ~(a.status = "completed" /\ b.status = "active")
                    /\ a.status = b.status => a.totalPL >= b.totalPL
                    /\ (a.status = b.status /\ a.totalPL = b.totalPL)
                          => FirstOf(a.name) < FirstOf(b.name)

\* the list of two cycles in which the active one, created last and with
\* the smaller total P/L, stands before the completed one
C26_Witness ==
    /\ res.op = "cycles"
    /\ Len(res.cycles) = 2
    /\ res.cycles[1].status = "active"
    /\ res.cycles[2].status = "completed"
    /\ res.cycles[1].totalPL < res.cycles[2].totalPL
    /\ FirstOf(res.cycles[1].name) > FirstOf(res.cycles[2].name)

\* a list of two cycles of one group whose total P/L ties
C26_Tie ==
    /\ res.op = "cycles"
    /\ Len(res.cycles) = 2
    /\ res.cycles[1].status = res.cycles[2].status
    /\ res.cycles[1].totalPL = res.cycles[2].totalPL

(* ---------------------------------------------------------------------- *)
(* Further properties of the mounted hook                                  *)
(* ---------------------------------------------------------------------- *)
\* a Save of the selector, whose controls edit the strategy and the two
\* thresholds only
C27_Save ==
    (call'.op = "handleSave" /\ events' = events + 1)
        => /\ strategyConfig'.dismissedAlerts = strategyConfig.dismissedAlerts
           /\ strategyConfig'.dismissedAt = strategyConfig.dismissedAt

\* C27: saving the strategy settings leaves the dismissal set unchanged:
\* after a dismiss, undismiss or clear-all followed by a Save in the
\* selector, dismissedAlerts and dismissedAt are the same as immediately
\* before the Save.
C27_SaveKeepsDismissals == [][C27_Save]_vars

\* C28: after any sequence of dismiss, undismiss, clear-all and expiry
\* sweep the dismissal id list holds each id at most once, also when
\* dismiss is called for an id that is dismissed already.
C28_NoDuplicates ==
    \A i \in DOMAIN strategyConfig.dismissedAlerts,
       j \in DOMAIN strategyConfig.dismissedAlerts :
        strategyConfig.dismissedAlerts[i] = strategyConfig.dismissedAlerts[j] => i = j

(* ---------------------------------------------------------------------- *)
(* Further properties of the stored positions and the aggregates           *)
(* ---------------------------------------------------------------------- *)
\* every stored position is filed under its own ticker
C29_Named ==
    \A i \in DOMAIN store : store[i].wheelCycleName = Some(store[i].stockTicker)

\* the cycles of a response are the tickers of the store, each with the
\* positions of its ticker
C29_Grouped ==
    res.op = "cycles" =>
        /\ { res.cycles[k].name : k \in DOMAIN res.cycles }
              = { store[i].stockTicker : i \in DOMAIN store }
        /\ \A k \in DOMAIN res.cycles :
              /\ res.cycles[k].name # "Uncategorized"
              /\ res.cycles[k].totalPositions =
                    Cardinality({ i \in DOMAIN store :
                                    store[i].stockTicker = res.cycles[k].name })

\* C29: after any sequence of create and update, updates of the ticker
\* included, the wheelCycleName of every stored position equals its
\* stockTicker, so each wheel cycle holds exactly the positions of one
\* ticker and no position falls into the Uncategorized bucket.
C29_CycleIsTicker == C29_Named /\ C29_Grouped

\* an update has moved a position from XYZ to ABC
C29_Witness ==
    /\ res.op = "PATCH"
    /\ res.code = 200
    /\ "stockTicker" \in DOMAIN res.req
    /\ Val(res.prev).stockTicker = "XYZ"
    /\ store[res.id].stockTicker = "ABC"
    /\ store[res.id].wheelCycleName = Some("ABC")

\* the three realized sums of the snapshot before they are rounded
RealizedSum(positions) ==
    Sum([i \in DOMAIN positions |-> MetricsRealized(positions[i])], DOMAIN positions)
PremiumRealizedSum(positions) ==
    Sum([i \in DOMAIN positions |-> MetricsPremiumRealized(positions[i])],
        DOMAIN positions)
StockRealizedSum(positions) ==
    Sum([i \in DOMAIN positions |-> MetricsStockRealized(positions[i])],
        DOMAIN positions)

\* C30: for every position set produced by create and update the portfolio
\* snapshot has realizedPL = premiumRealizedPL + stockRealizedPL before the
\* rounding, and totalPositions = openPositions + closedPositions +
\* assignedPositions.
C30_SnapshotSums ==
    res.op = "metrics" =>
        LET metrics == Val(res.metrics)
        IN  /\ RealizedSum(store) = PremiumRealizedSum(store) + StockRealizedSum(store)
            /\ metrics.realizedPL = Round2(RealizedSum(store))
            /\ metrics.premiumRealizedPL = Round2(PremiumRealizedSum(store))
            /\ metrics.stockRealizedPL = Round2(StockRealizedSum(store))
            /\ metrics.totalPositions =
                  metrics.openPositions + metrics.closedPositions
                    + metrics.assignedPositions

\* the snapshot of a closed position that sold its stock and of an
\* assigned position
C30_Witness ==
    /\ res.op = "metrics"
    /\ Val(res.metrics).totalPositions = 2
    /\ Val(res.metrics).closedPositions = 1
    /\ Val(res.metrics).assignedPositions = 1
    /\ StockRealizedSum(store) # 0
    /\ PremiumRealizedSum(store) # RealizedSum(store)
    /\ \E i \in DOMAIN store :
          store[i].status = "assigned" /\ OrZero(store[i].premiumRealizedPL) # 0
====
